---------------------------- MODULE Spec2Model ----------------------------
(***************************************************************************)
(* Model of the guided-learning session orchestrator (GuideManager) and    *)
(* the agents it drives (LocateAgent, InteractiveAgent, ChatAgent,         *)
(* SummaryAgent) over a file session store and an LLM client.              *)
(*                                                                         *)
(* Texts are sequences of chunks, JSON values are tagged records, Python   *)
(* dicts are TLA+ records/functions (whose DOMAIN is the key set), Python  *)
(* lists are sequences.  Every orchestrator operation is one action.       *)
(***************************************************************************)
EXTENDS Integers, Sequences, FiniteSets, TLC

VARIABLES
    cache,      \* GuideManager._sessions: dict session_id -> GuideSession
    store,      \* FileSessionStore: session_id -> JSON snapshot (to_dict)
    llmCalls,   \* the LLM requests issued by the last operation, in order
    ret,        \* what the last operation returned (or raised)
    nextRun,    \* per session: consecutive next calls since the index was set to 0
    awaiting    \* the chat calls suspended at their await, oldest first

vars == <<cache, store, llmCalls, ret, nextRun, awaiting>>

(***************************************************************************)
(* Bounds of the model.                                                    *)
(***************************************************************************)
MaxLog == 4        \* most conversation entries explored, over all sessions

(***************************************************************************)
(* Python values.                                                          *)
(***************************************************************************)
\* None in an integer-typed field (GuideMessage.knowledge_index).
None == -1

\* None in a string-typed field (session_id, error, current_knowledge).
NoneStr == "None"

\* An empty dict; also what stands for "returned None" and "no envelope".
EmptyDict == <<>>

\* str.strip() on the strings of the model: whitespace-only text becomes "".
Whitespace == {"", " "}

Strip(s) == IF s \in Whitespace THEN "" ELSE s

RECURSIVE IntStr(_)
\* str(i) for the integers that appear in messages, none of them negative.
IntStr(i) ==
    LET digit == <<"0", "1", "2", "3", "4", "5", "6", "7", "8", "9">>[(i % 10) + 1]
    IN  IF i < 10 THEN digit ELSE IntStr(i \div 10) \o digit

(***************************************************************************)
(* JSON values (what json.loads returns) and model texts.                  *)
(***************************************************************************)
JNull == [kind |-> "null", val |-> EmptyDict]

JNum(n) == [kind |-> "num", val |-> n]

JStr(s) == [kind |-> "str", val |-> s]

JList(items) == [kind |-> "list", val |-> items]

JDict(d) == [kind |-> "dict", val |-> d]

\* Python truthiness of a JSON value.
Truthy(v) ==
    CASE v.kind = "null" -> FALSE
      [] v.kind = "num"  -> v.val # 0
      [] v.kind = "str"  -> v.val # ""
      [] v.kind = "list" -> v.val # <<>>
      [] v.kind = "dict" -> DOMAIN v.val # {}

\* a or b
PyOr(a, b) == IF Truthy(a) THEN a ELSE b

\* d.get(key) / d.get(key, default) on a JSON dict
DictGet(d, key, default) == IF key \in DOMAIN d.val THEN d.val[key] ELSE default

\* str(v) for a JSON value used as a field of a knowledge point
PyStr(v) ==
    CASE v.kind = "str"  -> v.val
      [] v.kind = "null" -> "None"
      [] v.kind = "num"  -> IntStr(v.val)
      [] v.kind = "list" -> "[...]"
      [] v.kind = "dict" -> "{...}"

\* A text is a sequence of chunks: prose, or the text of one JSON value.
Prose == [chunk |-> "prose", json |-> JNull]

JsonText(v) == [chunk |-> "json", json |-> v]

\* json.loads(text): succeeds only when the whole text is one JSON value.
JsonLoads(text) ==
    IF Len(text) = 1 /\ text[1].chunk = "json"
    THEN [ok |-> TRUE, value |-> text[1].json]
    ELSE [ok |-> FALSE, value |-> JNull]

(***************************************************************************)
(* The LLM client: a request either returns a complete text or fails.      *)
(***************************************************************************)
LLMFail == [ok |-> FALSE, text |-> <<>>]

LLMText(t) == [ok |-> TRUE, text |-> t]

\* One request as BaseAgent.call_llm issues it, with the outcome it met.
Request(agent, prompt, response_format, outcome) ==
    [agent |-> agent, prompt |-> prompt, response_format |-> response_format,
     ok |-> outcome.ok, text |-> outcome.text]

(***************************************************************************)
(* Input records.                                                          *)
(***************************************************************************)
Record1 == [id |-> "r1", type |-> "solve", title |-> "Example",
            user_query |-> "Explain X", output |-> "X is"]

RecordSets == << <<>>, <<Record1>> >>

(***************************************************************************)
(* Model output offered to the Planner.                                    *)
(***************************************************************************)
ItemA == JDict([knowledge_title |-> JStr("Attention Basics"),
                knowledge_summary |-> JStr("sumA"),
                user_difficulty |-> JStr("hardA")])

ItemB == JDict([knowledge_title |-> JStr("Multi-Head Attention"),
                knowledge_summary |-> JStr("sumB")])

ItemBlank == JDict([knowledge_title |-> JStr(" ")])

LocateOutcomes ==
    << LLMFail,
       LLMText(<<Prose, JsonText(JList(<<ItemA>>))>>),
       LLMText(<<JsonText(JDict([note |-> JStr("nothing")]))>>),
       LLMText(<<JsonText(JList(<<ItemA, JStr("stray"), ItemB>>))>>),
       LLMText(<<JsonText(JDict([points |-> JList(<<ItemBlank>>)]))>>),
       LLMText(<<JsonText(JDict([knowledge_points |-> JList(<<>>),
                                 items |-> JList(<<ItemB, ItemA, ItemBlank>>)]))>>) >>

(***************************************************************************)
(* KnowledgePoint and LocateAgent.process.                                 *)
(***************************************************************************)
KnowledgePoint(title, summary, difficulty) ==
    [knowledge_title |-> title, knowledge_summary |-> summary,
     user_difficulty |-> difficulty]

\* The knowledge point built from one mapping entry.
PointOfItem(item) ==
    LET t == Strip(PyStr(DictGet(item, "knowledge_title", JStr(""))))
    IN  KnowledgePoint(IF t = "" THEN "Untitled" ELSE t,
                       Strip(PyStr(DictGet(item, "knowledge_summary", JStr("")))),
                       Strip(PyStr(DictGet(item, "user_difficulty", JStr("")))))

\* The list searched for entries.
RawPoints(parsed) ==
    CASE parsed.kind = "list" -> parsed
      [] parsed.kind = "dict" ->
            PyOr(DictGet(parsed, "knowledge_points", JNull),
              PyOr(DictGet(parsed, "points", JNull),
                PyOr(DictGet(parsed, "data", JNull),
                  PyOr(DictGet(parsed, "items", JNull), JList(<<>>)))))
      [] OTHER -> JList(<<>>)

RECURSIVE PointsOf(_)
PointsOf(items) ==
    IF items = <<>> THEN <<>>
    ELSE IF Head(items).kind = "dict"
         THEN <<PointOfItem(Head(items))>> \o PointsOf(Tail(items))
         ELSE PointsOf(Tail(items))

ExtractPoints(parsed) ==
    LET raw == RawPoints(parsed)
    IN  IF raw.kind = "list" THEN PointsOf(raw.val) ELSE <<>>

\* Variant: the retry keeps the structured-output mode.
LocateRequestsSameMode(records, first, second) ==
    IF records = <<>> THEN <<>>
    ELSE IF first.ok THEN <<Request("locate_agent", "records", "json_object", first)>>
    ELSE <<Request("locate_agent", "records", "json_object", first),
           Request("locate_agent", "records", "json_object", second)>>

\* The requests LocateAgent.process issues: JSON mode first, free-form on failure.
LocateRequests(records, first, second) ==
    IF records = <<>> THEN <<>>
    ELSE IF first.ok THEN <<Request("locate_agent", "records", "json_object", first)>>
    ELSE <<Request("locate_agent", "records", "json_object", first),
           Request("locate_agent", "records", NoneStr, second)>>

\* LocateAgent.process: raised names the exception that escapes, if any.
LocateProcess(records, first, second) ==
    IF records = <<>>
    THEN [raised |-> "",
          result |-> [success |-> FALSE, error |-> "No records provided",
                      knowledge_points |-> <<>>]]
    ELSE IF ~first.ok /\ ~second.ok
    THEN [raised |-> "LLMError", result |-> EmptyDict]
    ELSE LET response_text == IF first.ok THEN first.text ELSE second.text
             parsed == JsonLoads(response_text)
         IN  IF ~parsed.ok
             THEN [raised |-> "",
                   result |-> [success |-> FALSE,
                               error |-> "LocateAgent JSON parsing failed",
                               raw_response |-> response_text,
                               knowledge_points |-> <<>>]]
             ELSE LET points == ExtractPoints(parsed.value)
                  IN  [raised |-> "",
                       result |-> [success |-> TRUE, knowledge_points |-> points,
                                   total_points |-> Len(points)]]

(***************************************************************************)
(* InteractiveAgent: payload extraction, normalisation and rendering.      *)
(***************************************************************************)
FenceOpen == [chunk |-> "fence_open", json |-> JNull]

FenceClose == [chunk |-> "fence_close", json |-> JNull]

\* The fallback payload synthesized from the knowledge point's own fields.
PayloadFromKnowledge(knowledge) ==
    LET title == IF knowledge.knowledge_title = "" THEN "Knowledge Point"
                 ELSE knowledge.knowledge_title
        summary == knowledge.knowledge_summary
        difficulty == IF knowledge.user_difficulty = "" THEN "Beginner"
                      ELSE knowledge.user_difficulty
    IN  [title |-> JStr(title),
         concept |-> JStr(summary),
         key_points |-> JList(<<JStr("Summarize the core idea in your own words."),
                               JStr("Identify the key inputs, outputs, and assumptions."),
                               JStr("Common difficulty: " \o difficulty)>>),
         example_problem |-> JStr("Explain " \o title \o " with a simple example."),
         example_answer |-> JStr(summary),
         check_question |-> JStr("In one paragraph, explain " \o title \o "."),
         next_hint |-> JStr("If this makes sense, move to the next knowledge point.")]

\* Positions of the chunks of a kind, in order.
ChunkPositions(text, kind) == {i \in 1..Len(text) : text[i].chunk = kind}

Min(S) == CHOOSE x \in S : \A y \in S : x <= y

Max(S) == CHOOSE x \in S : \A y \in S : x >= y

\* The text between the first ```json and the next ```, if there is one.
FencedBody(text) ==
    LET opens == ChunkPositions(text, "fence_open")
    IN  IF opens = {} THEN [found |-> FALSE, body |-> <<>>]
        ELSE LET o == Min(opens)
                 closes == {i \in ChunkPositions(text, "fence_close") : i > o}
             IN  IF closes = {} THEN [found |-> FALSE, body |-> <<>>]
                 ELSE [found |-> TRUE, body |-> SubSeq(text, o + 1, Min(closes) - 1)]

\* Whether the text of a JSON value holds a brace.
HasBrace(v) ==
    \/ v.kind = "dict"
    \/ v.kind = "list" /\ \E i \in 1..Len(v.val) : v.val[i].kind = "dict"

\* The text from the first "{" to the last "}", if there is one.
BraceRegion(text) ==
    LET braces == {i \in ChunkPositions(text, "json") : HasBrace(text[i].json)}
    IN  IF braces = {} THEN [found |-> FALSE, body |-> <<>>]
        ELSE IF Min(braces) # Max(braces)
        THEN [found |-> TRUE, body |-> SubSeq(text, Min(braces), Max(braces))]
        ELSE LET v == text[Min(braces)].json
             IN  IF v.kind = "dict" THEN [found |-> TRUE, body |-> <<JsonText(v)>>]
                 ELSE IF Len(v.val) = 1
                 THEN [found |-> TRUE, body |-> <<JsonText(v.val[1])>>]
                 ELSE [found |-> TRUE, body |-> <<Prose, JsonText(v), Prose>>]

\* InteractiveAgent._extract_json: JNull stands for None.
ExtractJson(response) ==
    LET whole == JsonLoads(response)
        fenced == FencedBody(response)
        inline == BraceRegion(response)
    IN  IF whole.ok THEN whole.value
        ELSE IF fenced.found /\ JsonLoads(fenced.body).ok
        THEN JsonLoads(fenced.body).value
        ELSE IF inline.found THEN JsonLoads(inline.body).value
        ELSE JNull

RequiredFields == <<"title", "concept", "key_points", "example_problem",
                    "example_answer", "check_question", "next_hint">>

Range(seq) == {seq[i] : i \in 1..Len(seq)}

\* Variant: a key_points that is not a list is kept.
NormalizePayloadKeepsKeyPoints(payload, knowledge) ==
    LET fallback == PayloadFromKnowledge(knowledge)
    IN  IF ~Truthy(payload) \/ payload.kind # "dict" THEN fallback
        ELSE [k \in DOMAIN payload.val \cup Range(RequiredFields) |->
                 IF k \in DOMAIN payload.val THEN payload.val[k] ELSE fallback[k]]

\* InteractiveAgent._normalize_payload: the result is a dict of JSON values.
NormalizePayload(payload, knowledge) ==
    LET fallback == PayloadFromKnowledge(knowledge)
    IN  IF ~Truthy(payload) \/ payload.kind # "dict" THEN fallback
        ELSE LET filled == [k \in DOMAIN payload.val \cup Range(RequiredFields) |->
                               IF k \in DOMAIN payload.val THEN payload.val[k]
                               ELSE fallback[k]]
             IN  IF filled["key_points"].kind # "list"
                 THEN [filled EXCEPT !["key_points"] = fallback["key_points"]]
                 ELSE filled

\* The characters of a text, as far as escaping tells them apart: each of
\* & < > " ' / \ and the line feed is an element of its own, any other run of
\* characters is one element.  A text without any of them is one element.
Tokens(s) ==
    CASE s = "<b>Bold</b>" -> <<"<", "b", ">", "Bold", "<", "/", "b", ">">>
      [] s = "</script>"   -> <<"<", "/", "script", ">">>
      [] s = "say \"hi\""  -> <<"say ", "\"", "hi", "\"">>
      [] s = "it's"        -> <<"it", "'", "s">>
      [] s = "a & b"       -> <<"a ", "&", " b">>
      [] s = "line\nbreak" -> <<"line", "\n", "break">>
      [] s = "back\\slash" -> <<"back", "\\", "slash">>
      [] OTHER -> <<s>>

\* html.escape(s), quotes included
Escape(s) ==
    [k \in 1..Len(Tokens(s)) |->
        CASE Tokens(s)[k] = "&"  -> "&amp;"
          [] Tokens(s)[k] = "<"  -> "&lt;"
          [] Tokens(s)[k] = ">"  -> "&gt;"
          [] Tokens(s)[k] = "\"" -> "&quot;"
          [] Tokens(s)[k] = "'"  -> "&#x27;"
          [] OTHER -> Tokens(s)[k]]

\* html.escape(s).replace("\n", "<br>")
EscapeLines(s) ==
    [k \in 1..Len(Escape(s)) |-> IF Escape(s)[k] = "\n" THEN "<br>" ELSE Escape(s)[k]]

\* Variant: the string literal is built from the escaped text.
JsonDumpsEscaped(s) == <<"\"">> \o Escape(s) \o <<"\"">>

\* json.dumps(s): a string literal in double quotes; the quote, the backslash
\* and the line feed are escaped, every other character stands for itself.
JsonDumps(s) ==
    <<"\"">>
    \o [k \in 1..Len(Tokens(s)) |->
           CASE Tokens(s)[k] = "\"" -> "\\\""
             [] Tokens(s)[k] = "\\" -> "\\\\"
             [] Tokens(s)[k] = "\n" -> "\\n"
             [] OTHER -> Tokens(s)[k]]
    \o <<"\"">>

RECURSIVE KeyPointsHtml(_)
KeyPointsHtml(items) ==
    IF items = <<>> THEN <<>>
    ELSE <<"<li>">> \o Escape(PyStr(Head(items))) \o <<"</li>">> \o KeyPointsHtml(Tail(items))

\* InteractiveAgent._render_html: the page as the sequence of its pieces, those
\* of the template and, between them, the characters of the fields.
RenderHtml(payload) ==
    LET field(k) == PyStr(DictGet(JDict(payload), k, JStr("")))
        key_points == DictGet(JDict(payload), "key_points", JList(<<>>))
    IN  <<"<!DOCTYPE html><title>">> \o Escape(field("title"))
        \o <<"<h1>">> \o Escape(field("title"))
        \o <<"<h2>Concept</h2>">> \o EscapeLines(field("concept"))
        \o <<"<ul>">>
        \o (IF Truthy(key_points) THEN KeyPointsHtml(key_points.val) ELSE <<>>)
        \o <<"</ul>", "<h2>Example</h2>">> \o EscapeLines(field("example_problem"))
        \o <<"<div class=\"answer\">">> \o EscapeLines(field("example_answer"))
        \o <<"<h2>Check</h2>">> \o EscapeLines(field("check_question"))
        \o <<"<div class=\"hint\">">> \o EscapeLines(field("next_hint"))
        \o <<"<script>var sessionId = ", "__SESSION_ID__",
             "if (!sessionId || sessionId === ", "__SESSION_ID__", "var question = ">>
        \o JsonDumps(field("check_question"))
        \o <<";", "</script></html>">>

\* Variant: a failed request is issued a second time.
InteractiveRequestsRetried(knowledge, retry_with_bug, outcome) ==
    LET request == Request("interactive_agent",
                           IF retry_with_bug # "" THEN "repair" ELSE "generate",
                           NoneStr, outcome)
    IN  IF outcome.ok THEN <<request>> ELSE <<request, request>>

\* The request of InteractiveAgent.process: a repair prompt when a bug is described.
InteractiveRequests(knowledge, retry_with_bug, outcome) ==
    <<Request("interactive_agent",
              IF retry_with_bug # "" THEN "repair" ELSE "generate", NoneStr, outcome)>>

\* Variant: the fallback after a failed request carries neither flag nor error.
InteractiveProcessSilentFallback(knowledge, outcome) ==
    LET payload == IF outcome.ok THEN ExtractJson(outcome.text) ELSE JNull
    IN  [success |-> TRUE,
         html |-> RenderHtml(NormalizePayload(payload, knowledge)),
         is_fallback |-> (outcome.ok /\ payload.kind = "null")]

\* Variant: a failed request is reported instead of rendering the fallback.
InteractiveProcessNoFallback(knowledge, outcome) ==
    IF outcome.ok
    THEN LET payload == ExtractJson(outcome.text)
         IN  [success |-> TRUE,
              html |-> RenderHtml(NormalizePayload(payload, knowledge)),
              is_fallback |-> (payload.kind = "null")]
    ELSE [success |-> FALSE, html |-> <<>>, is_fallback |-> TRUE, error |-> "LLMError"]

\* InteractiveAgent.process: one free-form request; never raises, always success.
InteractiveProcess(knowledge, outcome) ==
    IF outcome.ok
    THEN LET payload == ExtractJson(outcome.text)
         IN  [success |-> TRUE,
              html |-> RenderHtml(NormalizePayload(payload, knowledge)),
              is_fallback |-> (payload.kind = "null")]
    ELSE [success |-> TRUE,
          html |-> RenderHtml(NormalizePayload(JNull, knowledge)),
          is_fallback |-> TRUE,
          error |-> "LLMError"]

ModelPayload == JDict([title |-> JStr("Model title"),
                       concept |-> JStr("Model concept"),
                       key_points |-> JList(<<JStr("point one")>>),
                       example_problem |-> JStr("Model problem"),
                       example_answer |-> JStr("Model answer"),
                       check_question |-> JStr("Model question"),
                       next_hint |-> JStr("Model hint")])

InteractiveOutcomes ==
    << LLMFail,
       LLMText(<<Prose, JsonText(ModelPayload)>>) >>

(***************************************************************************)
(* ChatAgent.process and SummaryAgent.process.                             *)
(***************************************************************************)
ChatOutcomes == << LLMFail, LLMText("Think of Q/K/V") >>

\* ChatAgent._format_history keeps the most recent max_messages entries.
MaxMessages == 10

\* Variant: the window keeps the oldest max_messages entries.
FormatHistoryOldest(history) ==
    LET last == IF Len(history) > MaxMessages THEN MaxMessages ELSE Len(history)
        label(role) == CASE role = "user" -> "**User**"
                         [] role = "assistant" -> "**Assistant**"
                         [] OTHER -> "_System"
    IN  [k \in 1..last |->
            [label |-> label(history[k].role), content |-> history[k].content]]

\* ChatAgent._format_history: one line per message, labelled by its role; no
\* line stands for the "(No chat history)" text of an empty history.
FormatHistory(history) ==
    LET first == IF Len(history) > MaxMessages THEN Len(history) - MaxMessages + 1 ELSE 1
        label(role) == CASE role = "user" -> "**User**"
                         [] role = "assistant" -> "**Assistant**"
                         [] OTHER -> "_System"
    IN  [k \in 1..(Len(history) - first + 1) |->
            [label |-> label(history[first + k - 1].role),
             content |-> history[first + k - 1].content]]

\* The request of ChatAgent.process: none for a blank question; the prompt is
\* the template filled with the knowledge point, the history and the question.
ChatRequests(knowledge, chat_history, user_question, outcome) ==
    IF Strip(user_question) = "" THEN <<>>
    ELSE <<Request("chat_agent",
                   [template |-> "question",
                    knowledge_title |-> knowledge.knowledge_title,
                    chat_history |-> FormatHistory(chat_history),
                    user_question |-> user_question],
                   NoneStr, outcome)>>

ChatProcess(knowledge, chat_history, user_question, outcome) ==
    IF Strip(user_question) = ""
    THEN [success |-> FALSE, error |-> "Question cannot be empty", answer |-> ""]
    ELSE IF outcome.ok
    THEN [success |-> TRUE, answer |-> Strip(outcome.text)]
    ELSE [success |-> FALSE, error |-> "LLMError",
          answer |-> "Failed to answer. Please retry."]

SummaryOutcomes == << LLMFail, LLMText("# Summary of the run") >>

SummaryRequests(outcome) == <<Request("summary_agent", "summary", NoneStr, outcome)>>

SummaryProcess(notebook_name, knowledge_points, chat_history, outcome) ==
    IF outcome.ok
    THEN [success |-> TRUE, summary_markdown |-> Strip(outcome.text)]
    ELSE [success |-> FALSE, error |-> "LLMError",
          summary_markdown |-> "# Learning Summary Completed: " \o notebook_name]


(***************************************************************************)
(* GuideMessage, GuideSession and their JSON form (models.py).             *)
(* Creation times are left out: no operation reads them.                   *)
(***************************************************************************)
\* Variant: a message is tagged with the position after the one given.
GuideMessageShifted(role, content, knowledge_index) ==
    [role |-> role, content |-> content,
     knowledge_index |-> IF knowledge_index = None THEN None ELSE knowledge_index + 1]

GuideMessage(role, content, knowledge_index) ==
    [role |-> role, content |-> content, knowledge_index |-> knowledge_index]

\* Variant: the difficulty of a point is not written out.
PointToDictNoDifficulty(p) ==
    [knowledge_title |-> p.knowledge_title,
     knowledge_summary |-> p.knowledge_summary]

\* KnowledgePoint.to_dict
PointToDict(p) ==
    [knowledge_title |-> p.knowledge_title,
     knowledge_summary |-> p.knowledge_summary,
     user_difficulty |-> p.user_difficulty]

\* KnowledgePoint.from_dict: a missing key reads as "".
PointFromDict(d) ==
    KnowledgePoint(IF "knowledge_title" \in DOMAIN d THEN d.knowledge_title ELSE "",
                   IF "knowledge_summary" \in DOMAIN d THEN d.knowledge_summary ELSE "",
                   IF "user_difficulty" \in DOMAIN d THEN d.user_difficulty ELSE "")

\* Variant: the index key is written only when the index is truthy.
MessageToDictTruthyIndex(m) ==
    IF m.knowledge_index # None /\ m.knowledge_index # 0
    THEN [role |-> m.role, content |-> m.content, knowledge_index |-> m.knowledge_index]
    ELSE [role |-> m.role, content |-> m.content]

\* GuideMessage.to_dict: the index key is written only when there is an index.
MessageToDict(m) ==
    IF m.knowledge_index # None
    THEN [role |-> m.role, content |-> m.content, knowledge_index |-> m.knowledge_index]
    ELSE [role |-> m.role, content |-> m.content]

\* Variant: the index of a stored message is not read back.
MessageFromDictNoIndex(d) ==
    GuideMessage(IF "role" \in DOMAIN d THEN d.role ELSE "user",
                 IF "content" \in DOMAIN d THEN d.content ELSE "",
                 None)

\* Variant: the role of a stored message is not read back.
MessageFromDictAnyRole(d) ==
    GuideMessage("user",
                 IF "content" \in DOMAIN d THEN d.content ELSE "",
                 IF "knowledge_index" \in DOMAIN d THEN d.knowledge_index ELSE None)

\* GuideMessage.from_dict
MessageFromDict(d) ==
    GuideMessage(IF "role" \in DOMAIN d THEN d.role ELSE "user",
                 IF "content" \in DOMAIN d THEN d.content ELSE "",
                 IF "knowledge_index" \in DOMAIN d THEN d.knowledge_index ELSE None)

\* GuideSession.to_dict
SessionToDict(session) ==
    [session_id |-> session.session_id,
     notebook_name |-> session.notebook_name,
     status |-> session.status,
     knowledge_points |-> [i \in 1..Len(session.knowledge_points) |->
                              PointToDict(session.knowledge_points[i])],
     current_index |-> session.current_index,
     chat_history |-> [i \in 1..Len(session.chat_history) |->
                          MessageToDict(session.chat_history[i])],
     current_html |-> session.current_html,
     summary_markdown |-> session.summary_markdown]

\* GuideSession.from_dict: the summary may be stored under a legacy key.
SessionFromDict(data) ==
    LET canonical == IF "summary_markdown" \in DOMAIN data THEN data.summary_markdown ELSE ""
        legacy == IF "summary" \in DOMAIN data THEN data.summary ELSE ""
    IN  [session_id |-> data.session_id,
         notebook_name |-> data.notebook_name,
         status |-> IF "status" \in DOMAIN data THEN data.status ELSE "initialized",
         knowledge_points |-> [i \in 1..Len(data.knowledge_points) |->
                                  PointFromDict(data.knowledge_points[i])],
         current_index |-> data.current_index,
         chat_history |-> [i \in 1..Len(data.chat_history) |->
                              MessageFromDict(data.chat_history[i])],
         current_html |-> data.current_html,
         summary_markdown |-> IF canonical # "" THEN canonical ELSE legacy]

(***************************************************************************)
(* Persistence: FileSessionStore and the manager's read-through cache.     *)
(***************************************************************************)
\* The identifiers callers pass, and those uuid4 draws in the explored runs.
SessionIds == {"s1", "s2"}

NewIds == {"s1"}

NotebookNames == {"Demo Notebook"}

\* Variant: one slot for every identifier, so an entry replaces the others.
PutSingleSlot(d, k, v) == [x \in {k} |-> v]

\* d[k] = v on a dict
Put(d, k, v) == [x \in DOMAIN d \cup {k} |-> IF x = k THEN v ELSE d[x]]

\* Whether _load finds the session.
Known(session_id) == session_id \in DOMAIN cache \/ session_id \in DOMAIN store

\* GuideManager._load: the session returned, for a known identifier.
Load(session_id) ==
    IF session_id \in DOMAIN cache THEN cache[session_id]
    ELSE SessionFromDict(store[session_id])

\* GuideManager._load: the cache it leaves behind.
CacheAfterLoad(session_id) ==
    IF session_id \notin DOMAIN cache /\ session_id \in DOMAIN store
    THEN Put(cache, session_id, SessionFromDict(store[session_id]))
    ELSE cache

\* Variant: the session is kept in memory and not written.
SaveCacheOnly(session) ==
    /\ store' = store
    /\ cache' = Put(CacheAfterLoad(session.session_id), session.session_id, session)

\* GuideManager._save, on top of the preceding _load.
Save(session) ==
    /\ store' = Put(store, session.session_id, SessionToDict(session))
    /\ cache' = Put(CacheAfterLoad(session.session_id), session.session_id, session)

\* Variant: returning without a save removes the file of the session.
NoSaveRemovesFile(session_id) ==
    /\ store' = [x \in DOMAIN store \ {session_id} |-> store[x]]
    /\ cache' = CacheAfterLoad(session_id)

\* An operation that returns after _load without saving.
NoSave(session_id) ==
    /\ store' = store
    /\ cache' = CacheAfterLoad(session_id)

(***************************************************************************)
(* GuideManager helpers.                                                   *)
(***************************************************************************)
(***************************************************************************)
(* The arithmetic of "int((current_index / total) * 100)": Python divides  *)
(* and multiplies in IEEE 754 binary64, each result rounded to the nearest *)
(* value of 53 significant bits, ties to even; int() then drops the        *)
(* fraction.  A float is held as a number of 54 bits and the weight 2^exp  *)
(* of its last bit: the 53 significant bits and, behind them, the bit the  *)
(* rounding looks at (zero once rounded).  The 54 bits are three digits    *)
(* d1 d2 d3 of 18 bits, so that every step stays within machine integers.  *)
(***************************************************************************)
Radix == 262144     \* 2^18

RECURSIVE Pow2(_)
Pow2(n) == IF n = 0 THEN 1 ELSE 2 * Pow2(n - 1)

RECURSIVE Scaled(_, _)
\* r doubled until 2r >= total: r/total is then in [1/2, 1).
Scaled(r, total) ==
    IF 2 * r >= total THEN [r |-> r, shift |-> 0]
    ELSE LET s == Scaled(2 * r, total) IN [r |-> s.r, shift |-> s.shift + 1]

\* Round 54 exact bits to 53, to nearest, ties to even; sticky tells that the
\* exact result has nonzero bits behind the 54.
RoundToDouble(d1, d2, d3, exp, sticky) ==
    LET round == d3 % 2
        lsb == (d3 \div 2) % 2
        up == round = 1 /\ (sticky \/ lsb = 1)
        n3 == d3 - round + (IF up THEN 2 ELSE 0)
        n2 == d2 + (n3 \div Radix)
        n1 == d1 + (n2 \div Radix)
    IN  IF n1 = Radix
        THEN [d1 |-> Radix \div 2, d2 |-> 0, d3 |-> 0, exp |-> exp + 1]
        ELSE [d1 |-> n1, d2 |-> n2 % Radix, d3 |-> n3 % Radix, exp |-> exp]

\* current_index / total, for 0 < current_index < total
FloatDiv(current_index, total) ==
    LET s == Scaled(current_index, total)
        d1 == (s.r * Radix) \div total
        r1 == (s.r * Radix) % total
        d2 == (r1 * Radix) \div total
        r2 == (r1 * Radix) % total
        d3 == (r2 * Radix) \div total
        r3 == (r2 * Radix) % total
    IN  RoundToDouble(d1, d2, d3, 0 - (54 + s.shift), r3 # 0)

\* x * 100: the exact product has 6 or 7 bits more than 54
FloatTimes100(x) ==
    LET t3 == x.d3 * 100
        t2 == x.d2 * 100 + (t3 \div Radix)
        t1 == x.d1 * 100 + (t2 \div Radix)
        p2 == t2 % Radix
        p3 == t3 % Radix
        extra == IF t1 >= Pow2(24) THEN 7 ELSE 6
        low == Pow2(extra)
        high == Pow2(18 - extra)
    IN  RoundToDouble(t1 \div low,
                      (t1 % low) * high + (p2 \div low),
                      (p2 % low) * high + (p3 \div low),
                      x.exp + extra,
                      p3 % low # 0)

\* int(x), for 0 <= x < 2^18: the bits in front of the binary point
Trunc(x) ==
    LET behind == 0 - x.exp - 36     \* bits of d1 behind the binary point
    IN  IF behind >= 18 THEN 0 ELSE x.d1 \div Pow2(behind)

\* int((current_index / total) * 100), for 0 <= current_index < total
Progress(current_index, total) ==
    IF current_index = 0 THEN 0
    ELSE Trunc(FloatTimes100(FloatDiv(current_index, total)))

\* GuideManager._learning_state
LearningState(points, current_index) ==
    LET total == Len(points)
    IN  IF total = 0
        THEN [success |-> FALSE, status |-> "empty", error |-> "No knowledge points"]
        ELSE IF current_index >= total
        THEN [success |-> TRUE, status |-> "completed", current_index |-> current_index,
              current_knowledge |-> NoneStr, total_points |-> total, progress |-> 100,
              message |-> "Completed all knowledge points."]
        ELSE [success |-> TRUE, status |-> "learning", current_index |-> current_index,
              current_knowledge |-> points[current_index + 1], total_points |-> total,
              remaining_points |-> total - current_index - 1,
              progress |-> Progress(current_index, total),
              message |-> "Starting knowledge point " \o IntStr(current_index + 1)
                          \o ": " \o points[current_index + 1].knowledge_title]

\* Variant: the placeholder is left in the page.
InjectSessionIdSkipped(html, session_id) == html

\* GuideManager._inject_session_id
InjectSessionId(html, session_id) ==
    [i \in 1..Len(html) |-> IF html[i] = "__SESSION_ID__" THEN session_id ELSE html[i]]

\* What an operation hands back: the envelope it returned, or the exception raised.
\* session_id is the identifier the caller passed or was given, if any.
Returned(op, session_id, env, component) ==
    [op |-> op, session_id |-> session_id, raised |-> "", env |-> env,
     component |-> component]

Raised(op, session_id, exception) ==
    [op |-> op, session_id |-> session_id, raised |-> exception, env |-> EmptyDict,
     component |-> EmptyDict]

\* Variant: the not-found envelope reports success.
NotFoundAsSuccess == [success |-> TRUE, error |-> "Session not found"]

NotFound == [success |-> FALSE, error |-> "Session not found"]


(***************************************************************************)
(* Inputs of the operations.                                               *)
(***************************************************************************)
RECURSIVE LogEntries(_)
LogEntries(ids) ==
    IF ids = {} THEN 0
    ELSE LET id == CHOOSE x \in ids : TRUE
         IN  Len(store[id].chat_history) + LogEntries(ids \ {id})

\* Whether the explored logs have room for n more entries.
LogRoom(n) == LogEntries(DOMAIN store) + n <= MaxLog

ChatMessages == {"Why scale?", " "}

BugDescriptions == {"", "button does nothing"}

(***************************************************************************)
(* The state after construction: nothing cached, an empty output dir.      *)
(***************************************************************************)
Init ==
    /\ cache = EmptyDict
    /\ store = EmptyDict
    /\ llmCalls = <<>>
    /\ ret = Returned("init", NoneStr, EmptyDict, EmptyDict)
    /\ nextRun = EmptyDict
    /\ awaiting = <<>>

\* A new GuideManager over the same output directory: the cache starts empty.
Restart ==
    /\ cache # EmptyDict
    /\ cache' = EmptyDict
    /\ llmCalls' = <<>>
    /\ ret' = Returned("init", NoneStr, EmptyDict, EmptyDict)
    /\ UNCHANGED <<store, nextRun, awaiting>>

(***************************************************************************)
(* GuideManager.create_session.  session_id is the eight hex digits drawn  *)
(* by str(uuid.uuid4())[:8]; nothing compares them with the identifiers in *)
(* use.                                                                    *)
(***************************************************************************)
\* Variant: the empty-list check is forgotten.
HasPointsUnchecked(points) == TRUE

\* "if not points" fails the creation.
HasPoints(points) == points # <<>>

create_session(session_id, notebook_name, records, first, second) ==
    LET locate == LocateProcess(records, first, second)
        points == locate.result.knowledge_points
        session == [session_id |-> session_id,
                    notebook_name |-> notebook_name,
                    status |-> "initialized",
                    knowledge_points |-> points,
                    current_index |-> 0,
                    chat_history |-> <<>>,
                    current_html |-> <<>>,
                    summary_markdown |-> ""]
    IN  /\ llmCalls' = LocateRequests(records, first, second)
        /\ UNCHANGED awaiting
        /\ IF locate.raised # ""
           THEN /\ ret' = Raised("create_session", NoneStr, locate.raised)
                /\ UNCHANGED <<cache, store, nextRun>>
           ELSE IF ~locate.result.success
           THEN /\ ret' = Returned("create_session", NoneStr,
                                   [success |-> FALSE, error |-> locate.result.error,
                                    session_id |-> NoneStr],
                                   locate.result)
                /\ UNCHANGED <<cache, store, nextRun>>
           ELSE IF ~HasPoints(points)
           THEN /\ ret' = Returned("create_session", NoneStr,
                                   [success |-> FALSE, error |-> "No knowledge points found",
                                    session_id |-> NoneStr],
                                   locate.result)
                /\ UNCHANGED <<cache, store, nextRun>>
           ELSE /\ store' = Put(store, session_id, SessionToDict(session))
                /\ cache' = Put(cache, session_id, session)
                /\ nextRun' = Put(nextRun, session_id, 0)
                /\ ret' = Returned("create_session", session_id,
                                   [success |-> TRUE, session_id |-> session_id,
                                    knowledge_points |-> points,
                                    total_points |-> Len(points)],
                                   locate.result)

(***************************************************************************)
(* GuideManager.start                                                      *)
(***************************************************************************)
start(session_id, outcome) ==
    /\ UNCHANGED awaiting
    /\ IF ~Known(session_id)
       THEN /\ ret' = Returned("start", session_id, NotFound, EmptyDict)
            /\ llmCalls' = <<>>
            /\ UNCHANGED <<cache, store, nextRun>>
       ELSE LET session == Load(session_id)
                state == LearningState(session.knowledge_points, 0)
            IN  IF ~state.success
                THEN /\ ret' = Returned("start", session_id, state, EmptyDict)
                     /\ llmCalls' = <<>>
                     /\ NoSave(session_id)
                     /\ UNCHANGED nextRun
                ELSE LET knowledge == state.current_knowledge
                         html_result == InteractiveProcess(knowledge, outcome)
                         saved == [session EXCEPT
                                     !.status = "learning",
                                     !.current_index = 0,
                                     !.current_html = InjectSessionId(html_result.html, session_id),
                                     !.chat_history = Append(@, GuideMessage("system", state.message, 0))]
                     IN  /\ LogRoom(1)
                         /\ llmCalls' = InteractiveRequests(knowledge, "", outcome)
                         /\ Save(saved)
                         /\ nextRun' = Put(nextRun, session_id, 0)
                         /\ ret' = Returned("start", session_id,
                                            [success |-> TRUE, current_index |-> 0,
                                             current_knowledge |-> knowledge,
                                             html |-> saved.current_html,
                                             progress |-> state.progress,
                                             total_points |-> Len(session.knowledge_points),
                                             message |-> state.message],
                                            html_result)

(***************************************************************************)
(* GuideManager.next                                                       *)
(***************************************************************************)
\* Variant: the cursor is not advanced.
NewIndexStuck(session) == session.current_index

NewIndex(session) == session.current_index + 1

next(session_id, outcome, summary_outcome) ==
    /\ UNCHANGED awaiting
    /\ IF ~Known(session_id)
       THEN /\ ret' = Returned("next", session_id, NotFound, EmptyDict)
            /\ llmCalls' = <<>>
            /\ UNCHANGED <<cache, store, nextRun>>
       ELSE LET session == Load(session_id)
                new_index == NewIndex(session)
                state == LearningState(session.knowledge_points, new_index)
            IN  IF ~state.success
                THEN /\ ret' = Returned("next", session_id, state, EmptyDict)
                     /\ llmCalls' = <<>>
                     /\ NoSave(session_id)
                     /\ UNCHANGED nextRun
                ELSE IF state.status = "completed"
                THEN LET summary == SummaryProcess(session.notebook_name,
                                                   session.knowledge_points,
                                                   session.chat_history, summary_outcome)
                         saved == [session EXCEPT
                                     !.status = "completed",
                                     !.current_index = new_index,
                                     !.summary_markdown = summary.summary_markdown,
                                     !.chat_history = Append(@, GuideMessage("system", state.message, None))]
                     IN  /\ LogRoom(1)
                         /\ llmCalls' = SummaryRequests(summary_outcome)
                         /\ Save(saved)
                         /\ nextRun' = Put(nextRun, session_id, nextRun[session_id] + 1)
                         /\ ret' = Returned("next", session_id,
                                            [success |-> TRUE, status |-> "completed",
                                             summary |-> saved.summary_markdown,
                                             progress |-> 100, message |-> state.message],
                                            summary)
                ELSE LET knowledge == state.current_knowledge
                         html_result == InteractiveProcess(knowledge, outcome)
                         msg == "Entering knowledge point " \o IntStr(new_index + 1)
                                \o ": " \o knowledge.knowledge_title
                         saved == [session EXCEPT
                                     !.current_index = new_index,
                                     !.current_html = InjectSessionId(html_result.html, session_id),
                                     !.chat_history = Append(@, GuideMessage("system", msg, new_index))]
                     IN  /\ LogRoom(1)
                         /\ llmCalls' = InteractiveRequests(knowledge, "", outcome)
                         /\ Save(saved)
                         /\ nextRun' = Put(nextRun, session_id, nextRun[session_id] + 1)
                         /\ ret' = Returned("next", session_id,
                                            [success |-> TRUE, current_index |-> new_index,
                                             current_knowledge |-> knowledge,
                                             html |-> saved.current_html,
                                             progress |-> state.progress,
                                             total_points |-> Len(session.knowledge_points),
                                             remaining_points |-> state.remaining_points,
                                             message |-> msg],
                                            html_result)


(***************************************************************************)
(* GuideManager.chat                                                       *)
(***************************************************************************)
\* Variant: the whole log is handed over.
ScopedHistoryUnfiltered(chat_history, idx) == chat_history

\* The history handed to the ChatAgent: the messages of the current point.
ScopedHistory(chat_history, idx) ==
    SelectSeq(chat_history, LAMBDA m : m.knowledge_index = idx)

\* Variant: only completed sessions are refused.
ChatAllowedUnlessCompleted(session) == session.status # "completed"

\* chat is refused unless the session is learning.
ChatAllowed(session) == session.status = "learning"

chat(session_id, message, outcome) ==
    /\ UNCHANGED awaiting
    /\ IF ~Known(session_id)
       THEN /\ ret' = Returned("chat", session_id, NotFound, EmptyDict)
            /\ llmCalls' = <<>>
            /\ UNCHANGED <<cache, store, nextRun>>
       ELSE LET session == Load(session_id) IN
            IF ~ChatAllowed(session)
            THEN /\ ret' = Returned("chat", session_id,
                                    [success |-> FALSE,
                                     error |-> "Invalid session status: " \o session.status],
                                    EmptyDict)
                 /\ llmCalls' = <<>>
                 /\ NoSave(session_id)
                 /\ UNCHANGED nextRun
            ELSE LET idx == session.current_index
                     knowledge == session.knowledge_points[idx + 1]
                     history == ScopedHistory(session.chat_history, idx)
                     result == ChatProcess(knowledge, history, message, outcome)
                     answer == result.answer
                     saved == [session EXCEPT
                                 !.chat_history =
                                     Append(Append(@, GuideMessage("user", message, idx)),
                                            GuideMessage("assistant", answer, idx))]
                 IN  /\ LogRoom(2)
                     /\ llmCalls' = ChatRequests(knowledge, history, message, outcome)
                     /\ Save(saved)
                     /\ UNCHANGED nextRun
                     /\ ret' = Returned("chat", session_id,
                                        [success |-> TRUE, answer |-> answer,
                                         knowledge_index |-> idx],
                                        result)

(***************************************************************************)
(* GuideManager.fix_html                                                   *)
(***************************************************************************)
\* Variant: the regeneration is entered in the conversation log.
fix_htmlLogged(session_id, bug_description, outcome) ==
    /\ UNCHANGED awaiting
    /\ IF ~Known(session_id)
       THEN /\ ret' = Returned("fix_html", session_id, NotFound, EmptyDict)
            /\ llmCalls' = <<>>
            /\ UNCHANGED <<cache, store, nextRun>>
       ELSE LET session == Load(session_id) IN
            IF session.current_index >= Len(session.knowledge_points)
            THEN \* knowledge_points[current_index] is out of range
                 /\ ret' = Raised("fix_html", session_id, "IndexError")
                 /\ llmCalls' = <<>>
                 /\ NoSave(session_id)
                 /\ UNCHANGED nextRun
            ELSE LET knowledge == session.knowledge_points[session.current_index + 1]
                     result == InteractiveProcess(knowledge, outcome)
                     saved == [session EXCEPT
                                 !.current_html = InjectSessionId(result.html, session_id),
                                 !.chat_history =
                                     Append(@, GuideMessage("system", bug_description,
                                                            session.current_index))]
                 IN  /\ llmCalls' = InteractiveRequests(knowledge, bug_description, outcome)
                     /\ IF result.success THEN Save(saved) ELSE NoSave(session_id)
                     /\ UNCHANGED nextRun
                     /\ ret' = Returned("fix_html", session_id,
                                        [success |-> result.success,
                                         html |-> result.html,
                                         error |-> IF "error" \in DOMAIN result
                                                   THEN result.error ELSE NoneStr],
                                        result)

fix_html(session_id, bug_description, outcome) ==
    /\ UNCHANGED awaiting
    /\ IF ~Known(session_id)
       THEN /\ ret' = Returned("fix_html", session_id, NotFound, EmptyDict)
            /\ llmCalls' = <<>>
            /\ UNCHANGED <<cache, store, nextRun>>
       ELSE LET session == Load(session_id) IN
            IF session.current_index >= Len(session.knowledge_points)
            THEN \* knowledge_points[current_index] is out of range
                 /\ ret' = Raised("fix_html", session_id, "IndexError")
                 /\ llmCalls' = <<>>
                 /\ NoSave(session_id)
                 /\ UNCHANGED nextRun
            ELSE LET knowledge == session.knowledge_points[session.current_index + 1]
                     result == InteractiveProcess(knowledge, outcome)
                     saved == [session EXCEPT
                                 !.current_html = InjectSessionId(result.html, session_id)]
                 IN  /\ llmCalls' = InteractiveRequests(knowledge, bug_description, outcome)
                     /\ IF result.success THEN Save(saved) ELSE NoSave(session_id)
                     /\ UNCHANGED nextRun
                     /\ ret' = Returned("fix_html", session_id,
                                        [success |-> result.success,
                                         html |-> result.html,
                                         error |-> IF "error" \in DOMAIN result
                                                   THEN result.error ELSE NoneStr],
                                        result)

(***************************************************************************)
(* GuideManager.get_session                                                *)
(***************************************************************************)
get_session(session_id) ==
    /\ llmCalls' = <<>>
    /\ UNCHANGED <<nextRun, awaiting>>
    /\ IF ~Known(session_id)
       THEN /\ ret' = Returned("get_session", session_id, EmptyDict, EmptyDict)
            /\ UNCHANGED <<cache, store>>
       ELSE /\ ret' = Returned("get_session", session_id,
                               SessionToDict(Load(session_id)), EmptyDict)
            /\ NoSave(session_id)

(***************************************************************************)
(* The orchestrator: any operation, on any identifier, with any outcome    *)
(* of the requests it makes.                                               *)
(***************************************************************************)
Next ==
    \/ Restart
    \/ \E session_id \in NewIds, notebook_name \in NotebookNames,
          r \in 1..Len(RecordSets),
          i \in 1..Len(LocateOutcomes), j \in 1..Len(LocateOutcomes) :
            /\ (RecordSets[r] = <<>> \/ LocateOutcomes[i].ok) => j = 1
            /\ RecordSets[r] = <<>> => i = 1
            /\ create_session(session_id, notebook_name, RecordSets[r],
                           LocateOutcomes[i], LocateOutcomes[j])
    \/ \E session_id \in SessionIds, i \in 1..Len(InteractiveOutcomes) :
            start(session_id, InteractiveOutcomes[i])
    \/ \E session_id \in SessionIds, i \in 1..Len(InteractiveOutcomes),
          j \in 1..Len(SummaryOutcomes) :
            next(session_id, InteractiveOutcomes[i], SummaryOutcomes[j])
    \/ \E session_id \in SessionIds, message \in ChatMessages,
          i \in 1..Len(ChatOutcomes) :
            chat(session_id, message, ChatOutcomes[i])
    \/ \E session_id \in SessionIds, bug_description \in BugDescriptions,
          i \in 1..Len(InteractiveOutcomes) :
            fix_html(session_id, bug_description, InteractiveOutcomes[i])
    \/ \E session_id \in SessionIds : get_session(session_id)

Spec == Init /\ [][Next]_vars

(***************************************************************************)
(* FileSessionStore on its own: a session value of any shape is saved, and  *)
(* a store opened on the same directory loads it.                           *)
(***************************************************************************)
MaxStoredLog == 2   \* longest conversation log among the session values saved

StoredMessages ==
    {GuideMessage(role, "hi", knowledge_index) :
        role \in {"user", "system"}, knowledge_index \in {None, 0, 1}}

StoredLogs ==
    UNION {[1..n -> StoredMessages] : n \in 0..MaxStoredLog}

StoredCurricula ==
    {<<>>, <<KnowledgePoint("Attention Basics", "sumA", "hardA")>>,
     <<KnowledgePoint("Attention Basics", "sumA", "hardA"),
       KnowledgePoint("Untitled", "", "")>>}

SessionValues ==
    [session_id : {"s1"},
     notebook_name : NotebookNames,
     status : {"initialized", "learning", "completed"},
     knowledge_points : StoredCurricula,
     current_index : 0..2,
     chat_history : StoredLogs,
     current_html : {<<>>, <<"<!DOCTYPE html><title>", "s1", "</script></html>">>},
     summary_markdown : {"", "# Summary of the run"}]

\* GuideManager._save of a session value: the file is written, the object cached.
save(session) ==
    /\ ret.op = "init"
    /\ Save(session)
    /\ llmCalls' = <<>>
    /\ ret' = Returned("save", session.session_id, EmptyDict, EmptyDict)
    /\ UNCHANGED <<nextRun, awaiting>>

\* FileSessionStore.load by another store on the same directory.
load(session_id) ==
    /\ ret.op = "save"
    /\ session_id \in DOMAIN store
    /\ ret' = Returned("load", session_id, SessionFromDict(store[session_id]), EmptyDict)
    /\ UNCHANGED <<cache, store, llmCalls, nextRun, awaiting>>

NextStore ==
    \/ \E session \in SessionValues : save(session)
    \/ \E session_id \in SessionIds : load(session_id)

SpecStore == Init /\ [][NextStore]_vars

(***************************************************************************)
(* InteractiveAgent.process on its own, over knowledge points and model    *)
(* texts of every shape: what it parsed and the payload it rendered are     *)
(* kept next to the result it returned.                                     *)
(***************************************************************************)
KnowledgeInputs ==
    << KnowledgePoint("Attention Basics", "sumA", "hardA"),
       KnowledgePoint("Untitled", "", ""),
       KnowledgePoint("", "sumC", "") >>

\* Values a model may give for key_points.
KeyPointsValues == {JList(<<JStr("point one")>>), JList(<<>>), JStr("not a list"), JNull}

\* Mappings with any subset of the required fields, with or without a stray key.
ModelDicts ==
    {JDict([k \in fields |-> IF k = "key_points" THEN key_points
                             ELSE JStr("model " \o k)]) :
        fields \in SUBSET (Range(RequiredFields) \cup {"note"}),
        key_points \in KeyPointsValues}

\* Values that are not mappings.
ModelScalars ==
    {JNull, JNum(0), JNum(1), JStr("text"), JList(<<>>), JList(<<JNum(1)>>),
     JList(<<ModelPayload>>)}

\* The texts a value comes in: alone, inside prose, in a json fence, twice in prose.
TextsOf(v) ==
    { <<JsonText(v)>>,
      <<Prose, JsonText(v), Prose>>,
      <<Prose, FenceOpen, JsonText(v), FenceClose>>,
      <<Prose, JsonText(v), Prose, JsonText(ModelPayload)>> }

ModelTexts == {<<Prose>>} \cup UNION {TextsOf(v) : v \in ModelDicts \cup ModelScalars}

interactive_process(knowledge, retry_with_bug, outcome) ==
    LET result == InteractiveProcess(knowledge, outcome)
        parsed == IF outcome.ok THEN ExtractJson(outcome.text) ELSE JNull
    IN  /\ ret.op = "init"       \* one call per run: the agent keeps no state
        /\ llmCalls' = InteractiveRequests(knowledge, retry_with_bug, outcome)
        /\ ret' = Returned("interactive_process", NoneStr,
                           [knowledge |-> knowledge, parsed |-> parsed,
                            payload |-> NormalizePayload(parsed, knowledge)],
                           result)
        /\ UNCHANGED <<cache, store, nextRun, awaiting>>

NextGen ==
    \E i \in 1..Len(KnowledgeInputs), retry_with_bug \in BugDescriptions :
        \/ interactive_process(KnowledgeInputs[i], retry_with_bug, LLMFail)
        \/ \E text \in ModelTexts :
              interactive_process(KnowledgeInputs[i], retry_with_bug, LLMText(text))

SpecGen == Init /\ [][NextGen]_vars

(***************************************************************************)
(* GuideManager._learning_state on its own, over curricula of every length *)
(* up to MaxTotal and every cursor start and next hand it.                 *)
(***************************************************************************)
MaxTotal == 50   \* longest curriculum handed to _learning_state

Curriculum(total) == [k \in 1..total |-> KnowledgePoint("Untitled", "", "")]

learning_state(total, current_index) ==
    /\ ret.op = "init"       \* one call per run: the helper keeps no state
    /\ llmCalls' = <<>>
    /\ ret' = Returned("_learning_state", NoneStr,
                       [total |-> total, current_index |-> current_index],
                       LearningState(Curriculum(total), current_index))
    /\ UNCHANGED <<cache, store, nextRun, awaiting>>

NextProgress ==
    \E total \in 0..MaxTotal, current_index \in 0..(MaxTotal + 1) :
        /\ current_index <= total + 1
        /\ learning_state(total, current_index)

SpecProgress == Init /\ [][NextProgress]_vars

(***************************************************************************)
(* LocateAgent.process on its own, over model output of every shape: the   *)
(* value json.loads returned is kept next to the result.                   *)
(***************************************************************************)
MaxEntries == 3   \* longest top-level list among the model outputs

ItemNoTitle == JDict([knowledge_summary |-> JStr("sumC")])

Entries == {ItemA, ItemB, ItemBlank, ItemNoTitle, JStr("stray")}

RecognizedKeys == <<"knowledge_points", "points", "data", "items">>

EntryLists(n) == UNION {[1..k -> Entries] : k \in 0..n}

\* Values that are not lists, as a model may put them under a key.
Strays == {JStr("n/a"), JNum(0), JNum(1), JNull, JDict([note |-> JStr("nothing")])}

\* Top-level lists; mappings with a list under one key; mappings with
\* something under a second key as well; values that are neither.
ParsedValues ==
    {JList(l) : l \in EntryLists(MaxEntries)}
    \cup {JDict(k :> JList(l)) : k \in Range(RecognizedKeys) \cup {"note"}, l \in EntryLists(1)}
    \cup {JDict((keys[1] :> v) @@ (keys[2] :> JList(<<ItemA, ItemB>>))) :
             keys \in {p \in Range(RecognizedKeys) \X Range(RecognizedKeys) : p[1] # p[2]},
             v \in Strays \cup {JList(<<>>), JList(<<ItemBlank>>)}}
    \cup Strays

LocateTexts ==
    {<<JsonText(v)>> : v \in ParsedValues}
    \cup {<<Prose, JsonText(JList(<<ItemA>>))>>,
          <<FenceOpen, JsonText(JList(<<ItemA>>)), FenceClose>>}

locate_process(records, first, second) ==
    LET response_text == IF first.ok THEN first.text ELSE second.text
        located == LocateProcess(records, first, second)
    IN  /\ ret.op = "init"       \* one call per run: the agent keeps no state
        /\ llmCalls' = LocateRequests(records, first, second)
        /\ ret' = IF located.raised # ""
                  THEN Raised("locate_process", NoneStr, located.raised)
                  ELSE Returned("locate_process", NoneStr,
                                [text |-> response_text,
                                 parsed |-> JsonLoads(response_text)],
                                located.result)
        /\ UNCHANGED <<cache, store, nextRun, awaiting>>

NextLocate ==
    \/ \E text \in LocateTexts : locate_process(<<Record1>>, LLMText(text), LLMFail)
    \/ \E text \in LocateTexts : locate_process(<<Record1>>, LLMFail, LLMText(text))
    \/ locate_process(<<Record1>>, LLMFail, LLMFail)
    \/ locate_process(<<>>, LLMFail, LLMFail)

SpecLocate == Init /\ [][NextLocate]_vars

(***************************************************************************)
(* ChatAgent.process on its own, over histories shorter and longer than    *)
(* the window: the history handed in is kept next to the result.           *)
(***************************************************************************)
MaxHistory == 12   \* longest history handed to ChatAgent.process

HistoryRoles == <<"system", "user", "assistant">>

\* n messages numbered in order, their roles cycling from the given offset.
HistoryOf(n, offset) ==
    [k \in 1..n |-> GuideMessage(HistoryRoles[((k + offset) % 3) + 1], IntStr(k), 0)]

chat_process(knowledge, chat_history, user_question, outcome) ==
    /\ ret.op = "init"       \* one call per run: the agent keeps no state
    /\ llmCalls' = ChatRequests(knowledge, chat_history, user_question, outcome)
    /\ ret' = Returned("chat_process", NoneStr,
                       [chat_history |-> chat_history, user_question |-> user_question],
                       ChatProcess(knowledge, chat_history, user_question, outcome))
    /\ UNCHANGED <<cache, store, nextRun, awaiting>>

NextChat ==
    \E n \in 0..MaxHistory, offset \in 0..2, user_question \in ChatMessages,
       i \in 1..Len(ChatOutcomes) :
        chat_process(KnowledgePoint("Attention Basics", "sumA", "hardA"),
                     HistoryOf(n, offset), user_question, ChatOutcomes[i])

SpecChat == Init /\ [][NextChat]_vars

(***************************************************************************)
(* Session files left in the output directory by another version of the   *)
(* program: the summary may be under "summary", under "summary_markdown",  *)
(* under both or under neither.  A store loads such a file, and the        *)
(* manager saves what was loaded.                                          *)
(***************************************************************************)
Absent == "<absent>"

SummaryTexts == {Absent, "", "# Summary of the run"}

LegacyTexts == {Absent, "", "# Old summary"}

\* The file of a session, with the two summary keys as given.
SnapshotWith(session, canonical, legacy) ==
    LET d == SessionToDict(session)
        rest == [k \in DOMAIN d \ {"summary_markdown"} |-> d[k]]
        c == IF canonical = Absent THEN rest ELSE rest @@ ("summary_markdown" :> canonical)
    IN  IF legacy = Absent THEN c ELSE c @@ ("summary" :> legacy)

Snapshots ==
    {SnapshotWith(session, canonical, legacy) :
        session \in {s \in SessionValues : /\ s.chat_history = <<>>
                                           /\ s.current_html = <<>>
                                           /\ s.summary_markdown = ""},
        canonical \in SummaryTexts, legacy \in LegacyTexts}

\* The file is found in the output directory when the program starts.
install(data) ==
    /\ ret.op = "init"
    /\ store' = Put(store, data.session_id, data)
    /\ ret' = Returned("install", data.session_id, EmptyDict, EmptyDict)
    /\ llmCalls' = <<>>
    /\ UNCHANGED <<cache, nextRun, awaiting>>

\* GuideManager._load of the file: FileSessionStore.load, then the cache.
reload(session_id) ==
    /\ ret.op = "install"
    /\ Known(session_id)
    /\ ret' = Returned("reload", session_id,
                       [data |-> store[session_id], session |-> Load(session_id)],
                       EmptyDict)
    /\ NoSave(session_id)
    /\ UNCHANGED <<llmCalls, nextRun, awaiting>>

\* GuideManager._save of the session loaded.
resave(session_id) ==
    /\ ret.op = "reload"
    /\ ret.session_id = session_id
    /\ Save(Load(session_id))
    /\ ret' = Returned("resave", session_id, EmptyDict, EmptyDict)
    /\ UNCHANGED <<llmCalls, nextRun, awaiting>>

NextLegacy ==
    \/ \E data \in Snapshots : install(data)
    \/ \E session_id \in SessionIds : reload(session_id)
    \/ \E session_id \in SessionIds : resave(session_id)

SpecLegacy == Init /\ [][NextLegacy]_vars

(***************************************************************************)
(* LocateAgent._format_records on its own.  The output of a record is a    *)
(* sequence of characters here, so that its length and its first           *)
(* max_output_chars characters are what Python's len and slice see; the    *)
(* marker appended to a cut output is one more element.                    *)
(***************************************************************************)
MaxOutputChars == 2000

MaxExcess == 2    \* how far past the budget the longest output goes

MaxRecords == 3   \* most records formatted in one call

TruncationMarker == "\n...[truncated]..."

\* An output of n characters, each telling its position.
Chars(n) == [k \in 1..n |-> IntStr(k % 10)]

OutputLengths == {0, 1} \cup ((MaxOutputChars - 1)..(MaxOutputChars + MaxExcess))

\* str.upper on the record types in use
Upper(type) == CASE type = "solve" -> "SOLVE"
                 [] type = "question" -> "QUESTION"
                 [] OTHER -> type

RecordOf(n) == [id |-> "r", type |-> IF n % 2 = 0 THEN "solve" ELSE "question",
                title |-> "Example " \o IntStr(n % 10),
                user_query |-> "Explain X", output |-> Chars(n)]

\* Variant: an output of exactly max_output_chars characters is cut as well.
FormatRecordsInclusive(records) ==
    [idx \in 1..Len(records) |->
        LET record == records[idx]
            output == IF Len(record.output) >= MaxOutputChars
                      THEN Append(SubSeq(record.output, 1, MaxOutputChars), TruncationMarker)
                      ELSE record.output
        IN  [number |-> idx, type |-> Upper(record.type), title |-> record.title,
             user_query |-> record.user_query, output |-> output]]

\* LocateAgent._format_records: one block per record, in order, numbered from 1.
FormatRecords(records) ==
    [idx \in 1..Len(records) |->
        LET record == records[idx]
            output == IF Len(record.output) > MaxOutputChars
                      THEN Append(SubSeq(record.output, 1, MaxOutputChars), TruncationMarker)
                      ELSE record.output
        IN  [number |-> idx, type |-> Upper(record.type), title |-> record.title,
             user_query |-> record.user_query, output |-> output]]

format_records(records) ==
    /\ ret.op = "init"       \* one call per run: the agent keeps no state
    /\ ret' = Returned("_format_records", NoneStr, [records |-> records],
                       [formatted |-> FormatRecords(records)])
    /\ llmCalls' = <<>>
    /\ UNCHANGED <<cache, store, nextRun, awaiting>>

NextFormat ==
    \E n \in 1..MaxRecords : \E lengths \in [1..n -> OutputLengths] :
        format_records([k \in 1..n |-> RecordOf(lengths[k])])

SpecFormat == Init /\ [][NextFormat]_vars

(***************************************************************************)
(* GuideManager.chat as the event loop runs it: the coroutine is suspended *)
(* at "await self.chat_agent.process(...)" while the request is in flight, *)
(* and other calls on the same manager run in between.                     *)
(***************************************************************************)
(***************************************************************************)
(* InteractiveAgent._render_html on its own: one call with a payload whose *)
(* fields hold texts with the characters that escaping is about.           *)
(***************************************************************************)
\* The texts a field of the payload holds in these runs.
FieldTexts ==
    {"Model text", "<b>Bold</b>", "</script>", "say \"hi\"", "it's", "a & b",
     "line\nbreak", "back\\slash"}

PayloadFields ==
    {"title", "concept", "key_points", "example_problem", "example_answer",
     "check_question", "next_hint"}

\* The payload with the given text in each field; key_points is a list of one.
PayloadOf(texts) ==
    [k \in PayloadFields |->
        IF k = "key_points" THEN JList(<<JStr(texts[k])>>) ELSE JStr(texts[k])]

\* The payloads of the runs: at most two fields differ from the plain text.
RenderPayloads ==
    {PayloadOf(texts) : texts \in
        {t \in [PayloadFields -> FieldTexts] :
            Cardinality({k \in PayloadFields : t[k] # "Model text"}) <= 2}}

render_html(payload) ==
    /\ ret.op = "init"       \* one call per run: the agent keeps no state
    /\ ret' = Returned("_render_html", NoneStr, [payload |-> payload],
                       [html |-> RenderHtml(payload)])
    /\ llmCalls' = <<>>
    /\ UNCHANGED <<cache, store, nextRun, awaiting>>

NextRender == \E payload \in RenderPayloads : render_html(payload)

SpecRender == Init /\ [][NextRender]_vars

MaxAwaiting == 1   \* most chat calls suspended at the same time

\* The identifiers uuid4 draws in the runs with two sessions.
AsyncIds == {"s1", "s2"}

\* The curricula of those runs: one point, or two.
AsyncLocateOutcomes == <<LocateOutcomes[5], LocateOutcomes[4]>>

\* chat up to its await: the session is loaded and checked, the history is
\* selected, and the learner message is appended to the cached session object.
\* A blank question does not suspend: ChatAgent.process returns before any request.
chat_call(session_id, message) ==
    /\ Known(session_id)
    /\ Strip(message) # ""
    /\ Len(awaiting) < MaxAwaiting
    /\ LogRoom(2)
    /\ LET session == Load(session_id)
           idx == session.current_index
       IN  /\ ChatAllowed(session)
           /\ cache' = Put(cache, session_id,
                           [session EXCEPT !.chat_history =
                               Append(@, GuideMessage("user", message, idx))])
           /\ awaiting' = Append(awaiting,
                                 [session_id |-> session_id, idx |-> idx,
                                  knowledge |-> session.knowledge_points[idx + 1],
                                  history |-> ScopedHistory(session.chat_history, idx),
                                  message |-> message])
    /\ UNCHANGED <<store, llmCalls, ret, nextRun>>

\* chat from its await on: the k-th suspended call gets the outcome of its
\* request, appends the reply to the session object it holds and saves it.
chat_resume(k, outcome) ==
    LET call == awaiting[k]
        session == cache[call.session_id]
        result == ChatProcess(call.knowledge, call.history, call.message, outcome)
        answer == result.answer
        saved == [session EXCEPT !.chat_history =
                     Append(@, GuideMessage("assistant", answer, call.idx))]
    IN  /\ awaiting' = SubSeq(awaiting, 1, k - 1) \o SubSeq(awaiting, k + 1, Len(awaiting))
        /\ llmCalls' = ChatRequests(call.knowledge, call.history, call.message, outcome)
        /\ Save(saved)
        /\ UNCHANGED nextRun
        /\ ret' = Returned("chat", call.session_id,
                           [success |-> TRUE, answer |-> answer,
                            knowledge_index |-> call.idx],
                           result)

NextAsync ==
    \/ \E session_id \in AsyncIds, notebook_name \in NotebookNames,
          i \in 1..Len(AsyncLocateOutcomes) :
            /\ ~Known(session_id)      \* the draws of these runs are not in use
            /\ create_session(session_id, notebook_name, RecordSets[2],
                              AsyncLocateOutcomes[i], AsyncLocateOutcomes[i])
    \/ \E session_id \in AsyncIds : start(session_id, InteractiveOutcomes[2])
    \/ \E session_id \in AsyncIds :
            next(session_id, InteractiveOutcomes[2], SummaryOutcomes[2])
    \/ \E session_id \in AsyncIds, message \in ChatMessages :
            chat_call(session_id, message)
    \/ \E k \in 1..Len(awaiting), i \in 1..Len(ChatOutcomes) :
            chat_resume(k, ChatOutcomes[i])
    \/ \E session_id \in AsyncIds :
            fix_html(session_id, "button does nothing", InteractiveOutcomes[1])
    \/ \E session_id \in AsyncIds : get_session(session_id)

SpecAsync == Init /\ [][NextAsync]_vars

(***************************************************************************)
(* The orchestrator with the request of chat in flight: every operation,   *)
(* with any outcome of the requests it makes, on the identifier uuid4      *)
(* draws once and on one that is never drawn.  chat awaits its request as  *)
(* in the runs above; the event loop resumes it when the request has       *)
(* completed or failed, which every request eventually does.               *)
(***************************************************************************)
\* The event loop hands the outcome of the request to a suspended chat.
Resume == \E k \in 1..Len(awaiting), i \in 1..Len(ChatOutcomes) : chat_resume(k, ChatOutcomes[i])

\* chat on the paths that return before any request is made.
chat_refused(session_id, message) ==
    /\ IF Known(session_id)
       THEN IF ChatAllowed(Load(session_id)) THEN Strip(message) = "" ELSE TRUE
       ELSE TRUE
    /\ chat(session_id, message, ChatOutcomes[1])

NextGateway ==
    \/ \E session_id \in NewIds, notebook_name \in NotebookNames,
          r \in 1..Len(RecordSets),
          i \in 1..Len(LocateOutcomes), j \in 1..Len(LocateOutcomes) :
            /\ ~Known(session_id)      \* the draw of these runs is not in use
            /\ (RecordSets[r] = <<>> \/ LocateOutcomes[i].ok) => j = 1
            /\ RecordSets[r] = <<>> => i = 1
            /\ create_session(session_id, notebook_name, RecordSets[r],
                              LocateOutcomes[i], LocateOutcomes[j])
    \/ \E session_id \in SessionIds, i \in 1..Len(InteractiveOutcomes) :
            start(session_id, InteractiveOutcomes[i])
    \/ \E session_id \in SessionIds, i \in 1..Len(InteractiveOutcomes),
          j \in 1..Len(SummaryOutcomes) :
            next(session_id, InteractiveOutcomes[i], SummaryOutcomes[j])
    \/ \E session_id \in SessionIds, message \in ChatMessages :
            chat_refused(session_id, message)
    \/ \E session_id \in SessionIds, message \in ChatMessages :
            chat_call(session_id, message)
    \/ Resume
    \/ \E session_id \in SessionIds, bug_description \in BugDescriptions,
          i \in 1..Len(InteractiveOutcomes) :
            fix_html(session_id, bug_description, InteractiveOutcomes[i])
    \/ \E session_id \in SessionIds : get_session(session_id)

\* The k-th suspended chat has been resumed: it is no longer among the waiting
\* ones.  In these runs the steps that do this are the steps of chat_resume.
ResumedAt(k) ==
    /\ k \in 1..Len(awaiting)
    /\ awaiting' = SubSeq(awaiting, 1, k - 1) \o SubSeq(awaiting, k + 1, Len(awaiting))

\* Every request completes or fails, so every suspended chat is resumed.
SpecGateway ==
    Init /\ [][NextGateway]_vars /\ \A k \in 1..MaxAwaiting : WF_awaiting(ResumedAt(k))


(***************************************************************************)
(* Properties.                                                             *)
(***************************************************************************)
\* The operations that take a session identifier.
SessionOps == {"start", "next", "chat", "fix_html", "get_session"}

Rank(status) ==
    CASE status = "initialized" -> 0
      [] status = "learning"    -> 1
      [] status = "completed"   -> 2

\* The envelope of the last operation reports "Session not found".
ReportsNotFound(r) ==
    /\ r.raised = ""
    /\ IF r.op = "get_session" THEN DOMAIN r.env = {}
       ELSE /\ DOMAIN r.env = {"success", "error"}
            /\ ~r.env.success
            /\ r.env.error = "Session not found"

\* C1: the status of a session only moves forward along initialized ->
\* learning -> completed: no start, next, chat, fix_html or get_session ever
\* moves it back, and none changes it once it is completed.
C1_StatusOnlyForward ==
    [][\A sid \in DOMAIN store :
          ret'.op \in SessionOps =>
              /\ sid \in DOMAIN store'
              /\ Rank(store'[sid].status) >= Rank(store[sid].status)]_vars

\* C2: in every state 0 <= current_index <= len(knowledge_points), and no
\* start, next, chat or fix_html ever decreases current_index.
C2_IndexBoundedNonDecreasing ==
    [][\A sid \in DOMAIN store' :
          /\ 0 <= store'[sid].current_index
          /\ store'[sid].current_index <= Len(store'[sid].knowledge_points)
          /\ (sid \in DOMAIN store /\ ret'.op \in SessionOps) =>
                 store'[sid].current_index >= store[sid].current_index]_vars

\* C3: in every persisted state of a session, current_index equals
\* len(knowledge_points) if and only if the status is completed.
C3_IndexAtEndIffCompleted ==
    \A sid \in DOMAIN store :
        (store[sid].current_index = Len(store[sid].knowledge_points))
            <=> (store[sid].status = "completed")

\* C4: from current_index = 0, the k-th consecutive next leaves current_index = k;
\* for a curriculum of n >= 1 points the first n-1 calls return a non-completed
\* result and leave the session not completed, and the n-th call returns the
\* completed result with the summary and leaves status completed, index n.
C4_NextNTimesCompletes ==
    \A sid \in DOMAIN store :
        LET session == store[sid]
            n == Len(session.knowledge_points)
            k == nextRun[sid]
            lastIsNext == ret.op = "next" /\ ret.session_id = sid
        IN  /\ n >= 1
            /\ k <= n => session.current_index = k
            /\ k < n =>
                  /\ session.status # "completed"
                  /\ lastIsNext =>
                        /\ ret.raised = "" /\ ret.env.success
                        /\ "status" \notin DOMAIN ret.env
                        /\ "summary" \notin DOMAIN ret.env
                        /\ ret.env.current_index = k
            /\ k = n =>
                  /\ session.status = "completed"
                  /\ lastIsNext =>
                        /\ ret.raised = "" /\ ret.env.success
                        /\ ret.env.status = "completed"
                        /\ ret.env.summary = session.summary_markdown

C4_Witness ==
    \E sid \in DOMAIN store :
        /\ ret.op = "next" /\ ret.session_id = sid
        /\ Len(store[sid].knowledge_points) = 3
        /\ nextRun[sid] = 3
        /\ store[sid].status = "completed"

\* C5: start on a created session (whose curriculum is never empty) succeeds and
\* leaves the session learning at index 0 with a non-empty stored artifact, which
\* is the artifact returned; also when the request of the artifact generation fails.
C5_StartYieldsLearningArtifact ==
    (ret.op = "start" /\ ret.session_id \in DOMAIN store) =>
        LET sid == ret.session_id IN
        /\ ret.raised = "" /\ ret.env.success
        /\ ret.env.current_index = 0
        /\ ret.env.html # <<>>
        /\ store[sid].status = "learning"
        /\ store[sid].current_index = 0
        /\ store[sid].current_html = ret.env.html
        /\ sid \in DOMAIN cache
        /\ cache[sid].status = "learning"
        /\ cache[sid].current_index = 0
        /\ cache[sid].current_html = ret.env.html

\* start directly after create, with the request of the generation failing.
C5_Witness ==
    /\ ret.op = "start" /\ ret.session_id \in DOMAIN store
    /\ Len(store[ret.session_id].chat_history) = 1
    /\ Len(llmCalls) = 1 /\ ~llmCalls[1].ok

\* C6: chat on a session that is initialized or completed returns the
\* status-mismatch failure, issues no request, and leaves the conversation log
\* as it was, in the cache and in the store.
C6_ChatRefusedOutsideLearning ==
    [][\A sid \in DOMAIN store :
          (/\ ret'.op = "chat" /\ ret'.session_id = sid
           /\ Load(sid).status \in {"initialized", "completed"}) =>
              /\ ret'.raised = ""
              /\ ~ret'.env.success
              /\ ret'.env.error = "Invalid session status: " \o Load(sid).status
              /\ llmCalls' = <<>>
              /\ store'[sid].chat_history = store[sid].chat_history
              /\ cache'[sid].chat_history = Load(sid).chat_history
              /\ Len(cache'[sid].chat_history) = Len(store[sid].chat_history)]_vars

C6_Witness ==
    /\ ret.op = "chat" /\ ret.raised = ""
    /\ ret.session_id \in DOMAIN store
    /\ "error" \in DOMAIN ret.env
    /\ ret.env.error = "Invalid session status: completed"
    /\ llmCalls = <<>>

\* C7: start, next, chat, fix_html and get_session on an identifier that is
\* neither cached nor persisted report not-found, leave cache and store as they
\* were, and issue no request.
C7_UnknownIdNotFound ==
    [][(/\ ret'.op \in SessionOps
        /\ ret'.session_id \notin DOMAIN cache
        /\ ret'.session_id \notin DOMAIN store) =>
           /\ ReportsNotFound(ret')
           /\ cache' = cache
           /\ store' = store
           /\ llmCalls' = <<>>]_vars

\* not-found reported while another session exists.
C7_Witness ==
    /\ ret.op = "fix_html"
    /\ ret.session_id \notin DOMAIN store
    /\ ReportsNotFound(ret)
    /\ DOMAIN store # {}

\* C8: fix_html on an existing session, in any status, returns an envelope and
\* never raises; the stored artifact is replaced if and only if the
\* regeneration reports success.
C8_FixNeverRaises ==
    [][\A sid \in DOMAIN store :
          (ret'.op = "fix_html" /\ ret'.session_id = sid) =>
              /\ ret'.raised = ""
              /\ store'[sid].current_html =
                     IF ret'.env.success THEN InjectSessionId(ret'.env.html, sid)
                     ELSE store[sid].current_html]_vars

\* C9: create_session never raises: when the structured request and the
\* free-form retry both fail it returns a failure envelope with a null session
\* id, and persists no session.
C9_CreateNeverRaises ==
    [][(/\ ret'.op = "create_session"
        /\ Len(llmCalls') = 2
        /\ ~llmCalls'[1].ok /\ ~llmCalls'[2].ok) =>
           /\ ret'.raised = ""
           /\ ~ret'.env.success
           /\ ret'.env.session_id = NoneStr
           /\ store' = store]_vars

C11_RetryOnlyAfterStructuredFailure ==
    [][ret'.op = "create_session" =>
          LET calls == llmCalls' IN
          /\ Len(calls) <= 2
          /\ \A k \in 1..Len(calls) : calls[k].agent = "locate_agent"
          /\ Len(calls) >= 1 => calls[1].response_format = "json_object"
          /\ (Len(calls) = 2) <=> (Len(calls) >= 1 /\ ~calls[1].ok)
          /\ Len(calls) = 2 => calls[2].response_format = NoneStr]_vars

\* the structured request fails and the free-form retry yields a curriculum.
C11_Witness ==
    /\ ret.op = "create_session" /\ ret.raised = ""
    /\ ret.env.success
    /\ Len(llmCalls) = 2
    /\ ~llmCalls[1].ok /\ llmCalls[2].ok

\* The position in log of the k-th message tagged idx.
TaggedPosition(log, idx, k) ==
    LET tagged == {i \in 1..Len(log) : log[i].knowledge_index = idx}
    IN  CHOOSE i \in tagged : Cardinality({j \in tagged : j < i}) = k - 1

Unanswered(log) ==
    \E i \in 1..Len(log) :
        /\ log[i].role = "user"
        /\ (i = Len(log) \/ log[i + 1].role # "assistant")

\* C13: the two appends of a chat become visible together: no persisted
\* snapshot and no result of get_session holds a learner message without the
\* assistant reply right after it, also while a chat is suspended at its await.
C13_ChatAppendsVisibleTogether ==
    /\ \A sid \in DOMAIN store : ~Unanswered(store[sid].chat_history)
    /\ (ret.op = "get_session" /\ DOMAIN ret.env # {}) =>
           ~Unanswered(ret.env.chat_history)

\* The session a step acts on: that of the chat it suspends, else that of the
\* operation that returns.
Actor ==
    IF Len(awaiting') > Len(awaiting) THEN awaiting'[Len(awaiting')].session_id
    ELSE ret'.session_id

\* C14: operations on different sessions are independent: a step of an
\* operation on one session, however it is interleaved with operations (and a
\* suspended chat) on another, leaves the other session's cached and persisted
\* state as it was.
C14_SessionsIndependent ==
    [][\A other \in DOMAIN store :
          other # Actor =>
              /\ other \in DOMAIN store'
              /\ store'[other] = store[other]
              /\ (other \in DOMAIN cache) <=> (other \in DOMAIN cache')
              /\ other \in DOMAIN cache /\ other \in DOMAIN cache' =>
                     cache'[other] = cache[other]]_vars

\* s2 completes while a chat on s1 is suspended with its learner message cached.
C14_Witness ==
    /\ DOMAIN store = {"s1", "s2"}
    /\ Len(awaiting) = 1 /\ awaiting[1].session_id = "s1"
    /\ ret.op = "next" /\ ret.session_id = "s2"
    /\ store["s2"].status = "completed"
    /\ store["s1"].status = "learning"
    /\ Len(cache["s1"].chat_history) = Len(store["s1"].chat_history) + 1

\* C15: the fallback flag of the Artifact Generator is true exactly when the
\* payload it rendered is not the model's mapping as parsed: true when nothing
\* was parsed, when the parsed value is not a mapping or is empty, when a field
\* was backfilled or key_points replaced; false only for an unchanged mapping.
C15_FallbackFlagIffNotVerbatim ==
    ret.op = "interactive_process" =>
        LET parsed == ret.env.parsed
            verbatim == parsed.kind = "dict" /\ ret.env.payload = parsed.val
        IN  ret.component.is_fallback <=> ~verbatim

\* C16: the normalized payload has the seven required fields and a list as
\* key_points; from a non-empty mapping every key the model supplied is kept
\* as it was (but a key_points that is not a list) and the absent required
\* fields are the fallback's; from anything else it is the whole fallback
\* synthesized from the knowledge point.
C16_NormalizedPayloadComplete ==
    ret.op = "interactive_process" =>
        LET parsed == ret.env.parsed
            payload == ret.env.payload
            fallback == PayloadFromKnowledge(ret.env.knowledge)
        IN  /\ Range(RequiredFields) \subseteq DOMAIN payload
            /\ payload["key_points"].kind = "list"
            /\ IF parsed.kind = "dict" /\ DOMAIN parsed.val # {}
               THEN /\ DOMAIN payload = DOMAIN parsed.val \cup Range(RequiredFields)
                    /\ \A k \in DOMAIN parsed.val :
                          IF k = "key_points" /\ parsed.val[k].kind # "list"
                          THEN payload[k] = fallback[k]
                          ELSE payload[k] = parsed.val[k]
                    /\ \A k \in Range(RequiredFields) \ DOMAIN parsed.val :
                          payload[k] = fallback[k]
               ELSE /\ payload = fallback
                    /\ payload["title"].val \in {ret.env.knowledge.knowledge_title,
                                                  "Knowledge Point"}
                    /\ payload["concept"].val = ret.env.knowledge.knowledge_summary

\* a mapping without key_points: six fields the model's, key_points the fallback's.
C16_Witness ==
    /\ ret.op = "interactive_process"
    /\ ret.env.parsed.kind = "dict"
    /\ DOMAIN ret.env.parsed.val = Range(RequiredFields) \ {"key_points"}
    /\ ret.env.payload["title"] = JStr("model title")
    /\ ret.env.payload["key_points"] =
           PayloadFromKnowledge(ret.env.knowledge)["key_points"]

\* A rendered page from its first piece to its last.
CompletePage(html) ==
    /\ Len(html) >= 2
    /\ html[1] = "<!DOCTYPE html><title>"
    /\ html[Len(html)] = "</script></html>"
    /\ \E i \in 1..Len(html) : html[i] = "__SESSION_ID__"

\* C17: whatever the request of the Artifact Generator meets, a text or a
\* failure, the Generator returns success with a complete page; after a failure
\* the page is the fallback of the knowledge point, the fallback flag is true
\* and the error text is in the result; start and next make their transition
\* and store the page all the same.
C17_GenerationAlwaysSucceeds ==
    [][\A sid \in DOMAIN store :
          (/\ ret'.session_id = sid /\ ret'.raised = ""
           /\ ret'.op \in {"start", "next", "fix_html"}
           /\ llmCalls' # <<>> /\ llmCalls'[1].agent = "interactive_agent") =>
              LET result == ret'.component
                  failed == ~llmCalls'[1].ok
                  knowledge == Load(sid).knowledge_points[store'[sid].current_index + 1]
              IN  /\ result.success /\ ret'.env.success
                  /\ CompletePage(result.html)
                  /\ failed <=> "error" \in DOMAIN result
                  /\ failed => /\ result.is_fallback
                               /\ result.error = "LLMError"
                               /\ result.html = RenderHtml(PayloadFromKnowledge(knowledge))
                  /\ store'[sid].current_html = InjectSessionId(result.html, sid)
                  /\ ret'.op = "start" =>
                        /\ store'[sid].status = "learning"
                        /\ store'[sid].current_index = 0
                  /\ ret'.op = "next" =>
                        /\ store'[sid].current_index = Load(sid).current_index + 1
                        /\ ret'.env.current_index = store'[sid].current_index]_vars

\* a next whose request failed: the cursor moved on and the fallback page is stored.
C17_Witness ==
    /\ ret.op = "next" /\ ret.session_id \in DOMAIN store
    /\ Len(llmCalls) = 1 /\ llmCalls[1].agent = "interactive_agent"
    /\ ~llmCalls[1].ok
    /\ ret.component.is_fallback
    /\ store[ret.session_id].current_index = 1

\* C18: chat on a learning session with an empty or whitespace-only message
\* (the one the ChatAgent answers with "Question cannot be empty") is reported
\* to the caller as a failure, without any request.
C18_BlankMessageReportedAsFailure ==
    [][\A sid \in DOMAIN store :
          (/\ ret'.op = "chat" /\ ret'.session_id = sid /\ ret'.raised = ""
           /\ Load(sid).status = "learning"
           /\ "error" \in DOMAIN ret'.component
           /\ ret'.component.error = "Question cannot be empty") =>
              /\ llmCalls' = <<>>
              /\ ~ret'.env.success]_vars

\* C19: when the request of the ChatAgent (in chat) or of the SummaryAgent (in
\* the completing next) fails, the operation returns a failure envelope.
C19_GatewayFailureReported ==
    [][(/\ ret'.op \in {"chat", "next"} /\ ret'.raised = ""
        /\ llmCalls' # <<>>
        /\ llmCalls'[1].agent \in {"chat_agent", "summary_agent"}
        /\ ~llmCalls'[1].ok) =>
           ~ret'.env.success]_vars

\* C20: save followed by load of the same identifier yields a session equal to
\* the saved one in every field: status, index, curriculum, log (empty or not,
\* messages with and without a knowledge-point index), artifact and summary.
C20_SaveLoadRoundTrip ==
    ret.op = "load" =>
        LET saved == cache[ret.session_id]
            loaded == ret.env
        IN  /\ loaded = saved
            /\ loaded.status = saved.status
            /\ loaded.current_index = saved.current_index
            /\ loaded.knowledge_points = saved.knowledge_points
            /\ loaded.chat_history = saved.chat_history
            /\ loaded.current_html = saved.current_html
            /\ loaded.summary_markdown = saved.summary_markdown

\* a completed session whose log holds a message tagged 0 and one without index.
C20_Witness ==
    /\ ret.op = "load"
    /\ ret.env.status = "completed"
    /\ Len(ret.env.chat_history) = 2
    /\ ret.env.chat_history[1].knowledge_index = 0
    /\ ret.env.chat_history[2].knowledge_index = None
    /\ "knowledge_index" \notin DOMAIN store[ret.session_id].chat_history[2]

\* C21: the knowledge-point list is fixed once the session is created: start,
\* next, chat, fix_html and get_session leave its length, its elements and
\* their order as they were, in memory and in the stored file.
C21_CurriculumFixedAfterCreate ==
    [][\A sid \in DOMAIN store :
          ret'.op \in SessionOps =>
              /\ sid \in DOMAIN store'
              /\ SessionFromDict(store'[sid]).knowledge_points = Load(sid).knowledge_points
              /\ sid \in DOMAIN cache' =>
                     cache'[sid].knowledge_points = Load(sid).knowledge_points]_vars

\* A two-point session read back once start and both nexts have run: the
\* curriculum is the one created.
C21_Witness ==
    /\ ret.op = "get_session"
    /\ "s1" \in DOMAIN store
    /\ store["s1"].status = "completed"
    /\ Len(store["s1"].knowledge_points) = 2
    /\ Len(store["s1"].chat_history) = 3
    /\ SessionFromDict(store["s1"]).knowledge_points = ret.env.knowledge_points
    /\ ret.env.knowledge_points[1].user_difficulty # ""

\* C22: the conversation log is append-only: after start, next, chat, fix_html
\* (and get_session) the log of every session, as stored and as held in
\* memory, begins with the log it had before the operation.
C22_LogAppendOnly ==
    [][\A sid \in DOMAIN store :
          ret'.op \in SessionOps =>
              LET before == store[sid].chat_history
                  after == store'[sid].chat_history
                  held == Load(sid).chat_history
                  held_after == IF sid \in DOMAIN cache' THEN cache'[sid].chat_history
                                ELSE SessionFromDict(store'[sid]).chat_history
              IN  /\ Len(before) <= Len(after)
                  /\ SubSeq(after, 1, Len(before)) = before
                  /\ Len(held) <= Len(held_after)
                  /\ SubSeq(held_after, 1, Len(held)) = held]_vars

\* A chat on the second point: the two notes of start and next are still the
\* head of the log, and the exchange was added behind them.
C22_Witness ==
    /\ ret.op = "chat"
    /\ ret.env.success
    /\ DOMAIN cache = {"s1"}
    /\ Len(store["s1"].chat_history) = 4
    /\ store["s1"].chat_history[1].role = "system"
    /\ store["s1"].chat_history[2].role = "system"
    /\ store["s1"].chat_history[2].knowledge_index = 1
    /\ store["s1"].chat_history[3].role = "user"

\* C23: every stored message that carries a knowledge-point index carries one
\* that is a position of the curriculum, and every message an operation
\* appends carries the cursor of that moment - or, for the completion note,
\* no index at all.
C23_MessageIndexesValid ==
    [][\A sid \in DOMAIN store :
          LET log == store[sid].chat_history
              total == Len(store[sid].knowledge_points)
          IN  /\ \A k \in 1..Len(log) :
                     "knowledge_index" \in DOMAIN log[k] =>
                         0 <= log[k].knowledge_index /\ log[k].knowledge_index < total
              /\ (ret'.op \in SessionOps /\ sid \in DOMAIN store') =>
                     \A k \in (Len(log) + 1)..Len(store'[sid].chat_history) :
                         LET m == store'[sid].chat_history[k]
                         IN  IF m.content = "Completed all knowledge points."
                             THEN "knowledge_index" \notin DOMAIN m
                             ELSE /\ "knowledge_index" \in DOMAIN m
                                  /\ m.knowledge_index = store'[sid].current_index
                                  /\ m.knowledge_index < total]_vars

\* A completed two-point session whose log holds the notes of both points,
\* tagged 0 and 1, and the completion note without a tag.
C23_Witness ==
    /\ ret.op = "next"
    /\ "s1" \in DOMAIN store
    /\ store["s1"].status = "completed"
    /\ Len(store["s1"].chat_history) = 3
    /\ "knowledge_index" \in DOMAIN store["s1"].chat_history[1]
    /\ store["s1"].chat_history[1].knowledge_index = 0
    /\ "knowledge_index" \in DOMAIN store["s1"].chat_history[2]
    /\ store["s1"].chat_history[2].knowledge_index = 1
    /\ "knowledge_index" \notin DOMAIN store["s1"].chat_history[3]

\* C24: the progress reported for a cursor inside the curriculum is
\* floor(current_index * 100 / total), a value in 0..99 (0 at the first point,
\* 50 at the second of two), and the progress reported on completion is 100.
C24_ProgressIsFloorOfPercentage ==
    (ret.op = "_learning_state" /\ ret.component.success) =>
        IF ret.component.status = "completed"
        THEN ret.component.progress = 100
        ELSE /\ ret.component.progress = (ret.env.current_index * 100) \div ret.env.total
             /\ ret.component.progress \in 0..99

\* C25: the final summary is written only by the next that completes the
\* session and is fixed afterwards: a session starts with an empty summary,
\* the stored summary changes only in a step that takes the session from
\* another status to completed, and never once the session is completed.
C25_SummaryFixedAtCompletion ==
    [][/\ \A sid \in DOMAIN store' \ DOMAIN store : store'[sid].summary_markdown = ""
       /\ \A sid \in DOMAIN store :
              (ret'.op \in SessionOps /\ sid \in DOMAIN store') =>
                  \/ store'[sid].summary_markdown = store[sid].summary_markdown
                  \/ /\ ret'.op = "next"
                     /\ store[sid].status # "completed"
                     /\ store'[sid].status = "completed"]_vars

\* The pages InteractiveAgent.process can produce for the point under the
\* cursor, with the session identifier bound in.
PagesFor(session) ==
    {InjectSessionId(InteractiveProcess(session.knowledge_points[session.current_index + 1],
                                        InteractiveOutcomes[i]).html,
                     session.session_id) : i \in 1..Len(InteractiveOutcomes)}

\* C26: the status tells what artifact is stored: an initialized session has
\* no artifact and its cursor at 0; a learning session holds a page generated
\* for the point under its cursor.
C26_StatusCharacterisesArtifact ==
    \A sid \in DOMAIN store :
        LET session == SessionFromDict(store[sid])
        IN  /\ session.status = "initialized" =>
                   session.current_html = <<>> /\ session.current_index = 0
            /\ session.status = "learning" =>
                   /\ session.current_index < Len(session.knowledge_points)
                   /\ session.current_html \in PagesFor(session)

\* C27: the identifier a successful create_session hands out is not the
\* identifier of a session already cached or stored, so no session is replaced.
C27_CreateAssignsFreshId ==
    [][(ret'.op = "create_session" /\ ret'.raised = "" /\ ret'.env.success) =>
           /\ ret'.env.session_id \notin DOMAIN store
           /\ ret'.env.session_id \notin DOMAIN cache
           /\ \A sid \in DOMAIN store : sid \in DOMAIN store' /\ store'[sid] = store[sid]]_vars

\* C28: extraction degrades entries, never the list.  When the parsed output
\* is a list, or a mapping with a list under knowledge_points, points, data or
\* items, the result has one knowledge point per mapping entry of such a list,
\* in the list's order: non-mapping entries dropped, an absent or blank title
\* replaced by "Untitled", an absent summary or difficulty by "".
C28_ExtractionDegradesEntriesOnly ==
    LET parsed == ret.env.parsed.value
        held == IF parsed.kind = "list" THEN {parsed.val}
                ELSE IF parsed.kind = "dict"
                THEN {parsed.val[k].val : k \in {x \in Range(RecognizedKeys) \cap DOMAIN parsed.val :
                                                    parsed.val[x].kind = "list"}}
                ELSE {}
        text(entry, key) == IF key \in DOMAIN entry.val
                            THEN Strip(PyStr(entry.val[key])) ELSE ""
        degraded(list) ==
            LET kept == SelectSeq(list, LAMBDA e : e.kind = "dict")
            IN  [n \in 1..Len(kept) |->
                    [knowledge_title |-> IF text(kept[n], "knowledge_title") = "" THEN "Untitled"
                                         ELSE text(kept[n], "knowledge_title"),
                     knowledge_summary |-> text(kept[n], "knowledge_summary"),
                     user_difficulty |-> text(kept[n], "user_difficulty")]]
    IN  (ret.op = "locate_process" /\ ret.raised = "" /\ "parsed" \in DOMAIN ret.env
            /\ ret.env.parsed.ok /\ held # {}) =>
            /\ ret.component.success
            /\ \E list \in held : ret.component.knowledge_points = degraded(list)

\* C29: model text is parsed by three attempts in the order whole text,
\* fenced block, outermost brace region, and "no structured value" (for the
\* Planner: the parse failure) is the outcome exactly when every attempt
\* fails; checked here on the texts handed to the Planner.
C29_ThreeAttemptsInOrder ==
    (ret.op = "locate_process" /\ ret.raised = "" /\ "text" \in DOMAIN ret.env) =>
        LET text == ret.env.text
            fenced == FencedBody(text)
            inline == BraceRegion(text)
            whole_ok == JsonLoads(text).ok
            fenced_ok == fenced.found /\ JsonLoads(fenced.body).ok
            inline_ok == inline.found /\ JsonLoads(inline.body).ok
        IN  ("raw_response" \in DOMAIN ret.component)
                <=> ~(whole_ok \/ fenced_ok \/ inline_ok)

\* C30: what each operation adds to the log, read back from the stored file:
\* start one system note tagged 0; a non-completing next one system note
\* tagged with the new cursor; the completing next one system note without
\* index; a successful chat the learner's message and the assistant's reply,
\* both tagged with the cursor; fix_html nothing.
C30_AppendsPerOperation ==
    [][\A sid \in DOMAIN store :
          (ret'.op \in SessionOps /\ ret'.session_id = sid /\ ret'.raised = ""
              /\ sid \in DOMAIN store') =>
              LET before == SessionFromDict(store[sid]).chat_history
                  session == SessionFromDict(store'[sid])
                  added == SubSeq(session.chat_history, Len(before) + 1,
                                  Len(session.chat_history))
                  succeeded == "success" \in DOMAIN ret'.env /\ ret'.env.success
                  completing == "status" \in DOMAIN ret'.env /\ ret'.env.status = "completed"
              IN  CASE ret'.op = "start" /\ succeeded ->
                          /\ Len(added) = 1
                          /\ added[1].role = "system"
                          /\ added[1].knowledge_index = 0
                    [] ret'.op = "next" /\ succeeded /\ ~completing ->
                          /\ Len(added) = 1
                          /\ added[1].role = "system"
                          /\ added[1].knowledge_index = session.current_index
                          /\ session.current_index = SessionFromDict(store[sid]).current_index + 1
                    [] ret'.op = "next" /\ succeeded /\ completing ->
                          /\ Len(added) = 1
                          /\ added[1].role = "system"
                          /\ added[1].knowledge_index = None
                    [] ret'.op = "chat" /\ succeeded ->
                          /\ Len(added) = 2
                          /\ added[1].role = "user"
                          /\ added[2].role = "assistant"
                          /\ added[1].knowledge_index = session.current_index
                          /\ added[2].knowledge_index = session.current_index
                    [] OTHER -> added = <<>>]_vars

\* A log of four entries written by start, a chat and a next, in that order.
C30_Witness ==
    /\ ret.op = "next"
    /\ ret.env.success
    /\ "s1" \in DOMAIN store
    /\ Len(store["s1"].chat_history) = 4
    /\ store["s1"].chat_history[1].role = "system"
    /\ store["s1"].chat_history[2].role = "user"
    /\ store["s1"].chat_history[3].role = "assistant"
    /\ store["s1"].chat_history[4].role = "system"
    /\ store["s1"].current_index = 1
    /\ store["s1"].status = "learning"

\* C31: the history in the responder's prompt is the scoped history handed
\* in when it has at most 10 messages, and exactly its last 10, in order,
\* when it has more.
C31_HistoryWindowCapped ==
    (ret.op = "chat_process" /\ llmCalls # <<>>) =>
        LET history == ret.env.chat_history
            used == llmCalls[1].prompt.chat_history
            skipped == IF Len(history) > 10 THEN Len(history) - 10 ELSE 0
        IN  /\ Len(used) = Len(history) - skipped
            /\ \A k \in 1..Len(used) :
                   /\ used[k].content = history[skipped + k].content
                   /\ used[k].label = CASE history[skipped + k].role = "user" -> "**User**"
                                        [] history[skipped + k].role = "assistant" -> "**Assistant**"
                                        [] OTHER -> "_System"

\* A history of 12 messages went in and the prompt holds the messages 3 to 12.
C31_Witness ==
    /\ ret.op = "chat_process"
    /\ llmCalls # <<>>
    /\ Len(ret.env.chat_history) = 12
    /\ Len(llmCalls[1].prompt.chat_history) = 10
    /\ llmCalls[1].prompt.chat_history[1].content = "3"
    /\ llmCalls[1].prompt.chat_history[10].content = "12"

\* C32: a file with the summary under the legacy name only loads with that
\* value; with the canonical name present the canonical value is loaded, an
\* empty one included; and a save writes the canonical name only.
C32_VariantTolerantLoad ==
    /\ ret.op = "reload" =>
           LET data == ret.env.data
               loaded == ret.env.session.summary_markdown
           IN  /\ ("summary" \in DOMAIN data /\ "summary_markdown" \notin DOMAIN data) =>
                      loaded = data.summary
               /\ "summary_markdown" \in DOMAIN data => loaded = data.summary_markdown
    /\ ret.op = "resave" =>
           /\ "summary_markdown" \in DOMAIN store[ret.session_id]
           /\ "summary" \notin DOMAIN store[ret.session_id]

\* C33: every record appears in the formatted prompt, in input order and
\* numbered from 1; an output longer than 2000 characters contributes its
\* first 2000 characters followed by the truncation marker, an output of at
\* most 2000 characters contributes itself, without the marker.
C33_OutputTruncatedAtBudget ==
    ret.op = "_format_records" =>
        LET records == ret.env.records
            formatted == ret.component.formatted
        IN  /\ Len(formatted) = Len(records)
            /\ \A k \in 1..Len(records) :
                   LET given == records[k].output
                       shown == formatted[k].output
                   IN  /\ formatted[k].number = k
                       /\ formatted[k].title = records[k].title
                       /\ IF Len(given) > 2000
                          THEN /\ Len(shown) = 2001
                               /\ \A c \in 1..2000 : shown[c] = given[c]
                               /\ shown[2001] = "\n...[truncated]..."
                          ELSE shown = given

\* Three records whose outputs have 2000, 2001 and 1999 characters: only the
\* second was cut.
C33_Witness ==
    /\ ret.op = "_format_records"
    /\ Len(ret.env.records) = 3
    /\ Len(ret.env.records[1].output) = 2000
    /\ Len(ret.env.records[2].output) = 2001
    /\ Len(ret.env.records[3].output) = 1999
    /\ Len(ret.component.formatted[1].output) = 2000
    /\ Len(ret.component.formatted[2].output) = 2001
    /\ ret.component.formatted[2].output[2001] = "\n...[truncated]..."
    /\ Len(ret.component.formatted[3].output) = 1999

\* The position of the piece that opens the assignment of the check question
\* in the script block of a page.
QuestionAt(html) == CHOOSE i \in 1..Len(html) : html[i] = "var question = "

\* C34: in the rendered page no field of the payload puts a bare & < > " or '
\* into the markup, and the check question in the script block stays inside
\* its string literal: between the quotes of the literal there is no bare
\* quote, backslash or line feed, and no closing script tag.
C34_RenderingEscapesEveryField ==
    ret.op = "_render_html" =>
        LET html == ret.component.html
            q == QuestionAt(html)
            literal == SubSeq(html, q + 2, Len(html) - 3)
        IN  /\ \A i \in 1..(q - 1) : html[i] \notin {"&", "<", ">", "\"", "'"}
            /\ html[q + 1] = "\"" /\ html[Len(html) - 2] = "\""
            /\ \A i \in 1..Len(literal) : literal[i] \notin {"\"", "\\", "\n"}
            /\ ~\E i \in 1..(Len(literal) - 2) :
                   literal[i] = "<" /\ literal[i + 1] = "/" /\ literal[i + 2] = "script"

\* The page is bound to the identifier: the identifier stands where the
\* template has its placeholder, and neither the placeholder nor an identifier
\* of another session is left in the page.
BoundTo(html, session_id) ==
    /\ \E i \in 1..Len(html) : html[i] = session_id
    /\ \A i \in 1..Len(html) :
           html[i] \notin ({"__SESSION_ID__"} \cup (AsyncIds \ {session_id}))

\* C35: after a successful start, a next that did not complete and a
\* successful fix_html the page of the session, cached and persisted, is bound
\* to the session's own identifier; and no session ever holds a page that is
\* not bound to its own identifier.
C35_ArtifactBoundToOwnSession ==
    /\ \A sid \in DOMAIN store :
           store[sid].current_html # <<>> => BoundTo(store[sid].current_html, sid)
    /\ \A sid \in DOMAIN cache :
           cache[sid].current_html # <<>> => BoundTo(cache[sid].current_html, sid)
    /\ (/\ ret.op \in {"start", "next", "fix_html"}
        /\ ret.raised = ""
        /\ "success" \in DOMAIN ret.env /\ ret.env.success
        /\ "html" \in DOMAIN ret.env) =>
           /\ BoundTo(store[ret.session_id].current_html, ret.session_id)
           /\ BoundTo(cache[ret.session_id].current_html, ret.session_id)

\* fix_html has regenerated the page of s2 while s1 holds a page of its own.
C35_Witness ==
    /\ ret.op = "fix_html" /\ ret.session_id = "s2" /\ ret.raised = ""
    /\ ret.env.success
    /\ DOMAIN store = {"s1", "s2"}
    /\ BoundTo(store["s1"].current_html, "s1")
    /\ BoundTo(store["s2"].current_html, "s2")
    /\ store["s1"].current_index = 1

\* C36: between operations the cached session of an identifier is the
\* persisted one: the file holds what to_dict gives for the cached session and
\* from_dict of the file gives the cached session, whatever operations came
\* before, those that returned a failure or met a failed request included.
C36_CacheCoherent ==
    \A sid \in DOMAIN cache :
        /\ sid \in DOMAIN store
        /\ store[sid] = SessionToDict(cache[sid])
        /\ cache[sid] = SessionFromDict(store[sid])

\* A chat on the second knowledge point whose request failed has returned:
\* the session in memory has the two messages of the exchange and so has the
\* file.
C36_Witness ==
    /\ ret.op = "chat" /\ ret.raised = ""
    /\ "success" \in DOMAIN ret.component /\ ~ret.component.success
    /\ ret.session_id \in DOMAIN cache
    /\ Len(cache[ret.session_id].chat_history) >= 3
    /\ store[ret.session_id] = SessionToDict(cache[ret.session_id])
    /\ cache[ret.session_id].current_index = 1

\* The session an operation on the identifier would be given by _load, for a
\* cache c and a directory s.
SessionView(c, s, session_id) ==
    IF session_id \in DOMAIN c THEN c[session_id] ELSE SessionFromDict(s[session_id])

\* The last operation was a read, or was refused with a failure envelope.
ReadOrRefused(r) ==
    /\ r.raised = ""
    /\ \/ r.op = "get_session"
       \/ /\ r.op \in SessionOps
          /\ "success" \in DOMAIN r.env /\ ~r.env.success
          /\ "error" \in DOMAIN r.env
          /\ r.env.error \in {"Session not found", "Invalid session status: initialized",
                              "Invalid session status: completed"}

\* C37: get_session, and every operation that returns "Session not found" or
\* "Invalid session status", leaves every file as it was and every field of
\* every session, as the operations see it, as it was; a session in the cache
\* stays in the cache unchanged.
C37_ReadOnlyAndRefusedHaveNoEffect ==
    [][ReadOrRefused(ret') =>
          /\ store' = store
          /\ \A sid \in DOMAIN cache : sid \in DOMAIN cache' /\ cache'[sid] = cache[sid]
          /\ \A sid \in DOMAIN cache' : sid \in DOMAIN cache \/ sid \in DOMAIN store
          /\ \A sid \in DOMAIN cache \cup DOMAIN store :
                 SessionView(cache', store', sid) = SessionView(cache, store, sid)]_vars

\* chat has been refused on a completed session that holds a summary and a
\* conversation log.
C37_Witness ==
    /\ ret.op = "chat" /\ ret.raised = ""
    /\ ~ret.env.success /\ ret.env.error = "Invalid session status: completed"
    /\ store[ret.session_id].status = "completed"
    /\ Len(store[ret.session_id].chat_history) >= 2
    /\ cache[ret.session_id] = SessionFromDict(store[ret.session_id])

\* The fields of a session other than the page.
BesidesArtifact(session) ==
    [status |-> session.status,
     current_index |-> session.current_index,
     knowledge_points |-> session.knowledge_points,
     chat_history |-> session.chat_history,
     summary_markdown |-> session.summary_markdown]

\* C38: fix_html on an existing session leaves status, current_index, the
\* knowledge points, the conversation log and the summary as they were, in the
\* cached session and in the file, whether the page it stored was rendered
\* from the model's payload or from the fallback.
C38_FixChangesOnlyArtifact ==
    [][(ret'.op = "fix_html" /\ Known(ret'.session_id)) =>
          LET sid == ret'.session_id IN
          /\ BesidesArtifact(SessionView(cache', store', sid))
                 = BesidesArtifact(SessionView(cache, store, sid))
          /\ BesidesArtifact(SessionFromDict(store'[sid]))
                 = BesidesArtifact(SessionFromDict(store[sid]))
          /\ \A other \in (DOMAIN store \cup DOMAIN cache) \ {sid} :
                 SessionView(cache', store', other) = SessionView(cache, store, other)]_vars

\* fix_html has stored a page rendered from the fallback payload for a session
\* on its second knowledge point with a conversation log.
C38_Witness ==
    /\ ret.op = "fix_html" /\ ret.raised = ""
    /\ ret.env.success /\ ret.component.is_fallback
    /\ store[ret.session_id].current_index = 1
    /\ store[ret.session_id].status = "learning"
    /\ Len(store[ret.session_id].chat_history) >= 3
    /\ store[ret.session_id].current_html = InjectSessionId(ret.env.html, ret.session_id)

\* The most requests an operation makes.
MostRequests(op) ==
    CASE op \in {"start", "next", "chat", "fix_html"} -> 1
      [] op = "create_session" -> 2
      [] OTHER -> 0

\* A chat on the knowledge point idx that saw n earlier messages of that point
\* is waiting for its request.  The log of a point only grows, so no two chats
\* of a run on one session agree in both.
Waiting(session_id, idx, n) ==
    \E k \in 1..Len(awaiting) :
        /\ awaiting[k].session_id = session_id
        /\ awaiting[k].idx = idx
        /\ Len(awaiting[k].history) = n

\* C39: start, next, chat and fix_html make at most one request each and none
\* of them makes the request of a failed one again, create_session makes at
\* most two, the second only after the first failed, and get_session makes
\* none; and every chat that waits for its request ends once the request has
\* completed or failed.  (The other operations end in the step that makes
\* their requests: with an envelope, or with the exception of create_session
\* after two failed requests.)
C39_BoundedGatewayUse ==
    /\ [](/\ Len(llmCalls) <= MostRequests(ret.op)
          /\ Len(llmCalls) = 2 => ~llmCalls[1].ok
          /\ ret.op \in {"get_session", "init"} => llmCalls = <<>>)
    /\ \A session_id \in NewIds :
           \A call \in {c \in (0..MaxLog) \X (0..MaxLog) : c[1] + c[2] <= MaxLog} :
               Waiting(session_id, call[1], call[2]) ~> ~Waiting(session_id, call[1], call[2])

\* create_session has ended after two failed requests.
C39_Witness ==
    /\ ret.op = "create_session"
    /\ Len(llmCalls) = 2 /\ ~llmCalls[1].ok /\ ~llmCalls[2].ok

=============================================================================
